---------------------------- MODULE Spec2Model ----------------------------
(***************************************************************************)
(* MiniTemplator (chdh/minitemplator-js): the template parser              *)
(* (MiniTemplatorParser, in src/src/Utils.ts from line 42) and the output  *)
(* engine (src/src/MiniTemplator.ts).                                      *)
(*                                                                         *)
(* Strings are sequences of one-character strings; positions are 0-based   *)
(* as in the source, so the character at position p of s is s[p+1].        *)
(* Tables (blockTab, varRefTab, ...) are sequences; entry number n of a    *)
(* table t is At(t, n) = t[n+1].                                           *)
(***************************************************************************)
EXTENDS Integers, Sequences, FiniteSets, TLC

VARIABLES
    pParms,        \* ParserParms: the loader's files, mainTemplateName, conditionVars, shortFormEnabled
    pc,            \* position of the program: "init", "commands", "finish", "parsed", "failed", "session"
    parser,        \* the Parser object's fields, and p of parseTemplateCommands
    template,      \* the ParsedTemplate returned by parseTemplate (NoTemplate before)
    varValuesTab,  \* MiniTemplator.varValuesTab
    blockDynTab,   \* MiniTemplator.blockDynTab
    blockInstTab,  \* MiniTemplator.blockInstTab
    ret,           \* outcome of the last MiniTemplator call: its return value or the error thrown
    given,         \* history: the text of the value last given to setVariable for each variable
                   \* of the syntax tree since construction/reset (empty when none was)
    calls,         \* history: the calls that created block instances since construction/reset
    scenario,      \* the caller: the syntax tree the main template was written from (<<>>: raw
                   \* text) and the values it passes to setVariable
    cache,         \* MiniTemplatorCache: its cache map, the get() calls awaiting parseTemplate,
                   \* and what the get() calls returned
    sessions,      \* MiniTemplator objects constructed on the one ParsedTemplate `template`
    turn           \* history: the loop of parseTemplateCommands has made an odd number of
                   \* iterations

vars == <<pParms, pc, parser, template, varValuesTab, blockDynTab, blockInstTab, ret, given, calls, scenario, cache, sessions, turn>>

\* ------------------------------------------------------------------------
\* Strings
\* ------------------------------------------------------------------------

At(tab, n) == tab[n + 1]

Min(S) == CHOOSE x \in S : \A y \in S : x <= y

\* String.prototype.substring(a, b) for 0 <= a; an end beyond the length is clamped.
substring(s, a, b) ==
    LET e == IF b > Len(s) THEN Len(s) ELSE b
    IN  IF a > e THEN SubSeq(s, e + 1, a) ELSE SubSeq(s, a + 1, e)

\* String.prototype.substring(a): to the end of the string.
substringFrom(s, a) == SubSeq(s, a + 1, Len(s))

\* String.prototype.indexOf(sub, from) for a non-empty sub: -1 when not found.
indexOf(s, sub, from) ==
    LET cands == {i \in from .. (Len(s) - Len(sub)) :
                     \A k \in 1 .. Len(sub) : s[i + k] = sub[k]}
    IN  IF cands = {} THEN -1 ELSE Min(cands)

startsWith(s, pre) ==
    /\ Len(s) >= Len(pre)
    /\ SubSeq(s, 1, Len(pre)) = pre

\* Characters with a char code <= 32 that the model's texts use.
WhiteSpaceChars == {" ", "\n", "\t"}

RECURSIVE Concat(_)
Concat(ss) == IF ss = <<>> THEN <<>> ELSE Head(ss) \o Concat(Tail(ss))

\* ------------------------------------------------------------------------
\* Utils.ts
\* ------------------------------------------------------------------------

\* JavaScript values that callers pass for `any` parameters.
StrVal(s)  == [t |-> "string",    b |-> FALSE, n |-> 0, s |-> s]
NumVal(n)  == [t |-> "number",    b |-> FALSE, n |-> n, s |-> <<>>]
BoolVal(b) == [t |-> "boolean",   b |-> b,     n |-> 0, s |-> <<>>]
NullVal    == [t |-> "null",      b |-> FALSE, n |-> 0, s |-> <<>>]
UndefVal   == [t |-> "undefined", b |-> FALSE, n |-> 0, s |-> <<>>]

Digits == <<"0", "1", "2", "3", "4", "5", "6", "7", "8", "9">>

\* Number.prototype.toString() of a natural number.
RECURSIVE NatToString(_)
NatToString(n) ==
    IF n < 10 THEN <<Digits[n + 1]>>
    ELSE NatToString(n \div 10) \o <<Digits[(n % 10) + 1]>>

\* v.toString() of a value that is neither a string nor null/undefined.
toString(v) ==
    IF v.t = "number" THEN NatToString(v.n)
    ELSE IF v.b THEN <<"t", "r", "u", "e">> ELSE <<"f", "a", "l", "s", "e">>

\* Variant: null and undefined are converted like every other value.
formatVariableValue_NullText(v) ==
    IF v.t = "string" THEN v.s
    ELSE IF v.t = "null" THEN <<"n", "u", "l", "l">>
    ELSE IF v.t = "undefined" THEN <<"u", "n", "d", "e", "f", "i", "n", "e", "d">>
    ELSE toString(v)

formatVariableValue(v) ==
    IF v.t = "string" THEN v.s
    ELSE IF v.t \in {"undefined", "null"} THEN <<>>
    ELSE toString(v)

\* The replacement escapeHtml makes for one character.
escapeChar(c) ==
    CASE c = "\"" -> <<"&", "q", "u", "o", "t", ";">>
      [] c = "&"  -> <<"&", "a", "m", "p", ";">>
      [] c = "'"  -> <<"&", "#", "3", "9", ";">>
      [] c = "<"  -> <<"&", "l", "t", ";">>
      [] c = ">"  -> <<"&", "g", "t", ";">>
      [] OTHER    -> <<c>>

escapeHtml(v) ==
    LET s == formatVariableValue(v)
    IN  Concat([i \in 1 .. Len(s) |-> escapeChar(s[i])])

\* ------------------------------------------------------------------------
\* MiniTemplatorParser: constants and general utility routines
\* ------------------------------------------------------------------------

maxNestingLevel == 30
maxCondLevels == 30
maxInclTemplateSize == 1000000
cmdStartStr == <<"<", "!", "-", "-">>
cmdEndStr == <<"-", "-", ">">>
cmdStartStrShort == <<"<", "$">>
cmdEndStrShort == <<">">>

isWhiteSpaceAt(s, p) == p < Len(s) /\ s[p + 1] \in WhiteSpaceChars

skipBlanks(s, p0) ==
    Min({p \in p0 .. Len(s) : p >= Len(s) \/ ~isWhiteSpaceAt(s, p)} \cup {IF p0 > Len(s) THEN p0 ELSE Len(s)})

skipNonBlanks(s, p0) ==
    Min({p \in p0 .. Len(s) : p >= Len(s) \/ isWhiteSpaceAt(s, p)} \cup {IF p0 > Len(s) THEN p0 ELSE Len(s)})

isRestOfStringBlank(s, p) == skipBlanks(s, p) >= Len(s)

isStringBlank(s) == isRestOfStringBlank(s, 0)

\* String.prototype.trim()
trim(s) ==
    LET a == skipBlanks(s, 0)
        keep == {q \in a + 1 .. Len(s) : s[q] \notin WhiteSpaceChars}
    IN  IF a >= Len(s) THEN <<>>
        ELSE SubSeq(s, a + 1, CHOOSE q \in keep : \A r \in keep : r <= q)

\* ------------------------------------------------------------------------
\* MiniTemplatorParser: class Parser
\* ------------------------------------------------------------------------

NoName == <<>>                       \* blockName undefined (a real block name is never empty)
Unset == -1                          \* a position field not assigned yet (undefined in the source)

SyntaxError == "TemplateSyntaxError"
PlainError == "Error"

\* throw: the parse is abandoned with an error of class cls.
Throw(ps, cls, msg) == [ps EXCEPT !.errorClass = cls, !.error = msg]

Failed(ps) == ps.errorClass # ""

\* A value stored into an Int16Array cell.
ToInt16(x) == ((x + 32768) % 65536) - 32768

lookupVariableName(ps, varName) ==
    IF varName \in DOMAIN ps.varNameToNoMap THEN ps.varNameToNoMap[varName] ELSE -1

lookupBlockName(ps, blockName) ==
    IF blockName \in DOMAIN ps.blockNameToNoMap THEN ps.blockNameToNoMap[blockName] ELSE -1

\* Map.prototype.set
MapSet(m, k, v) == [x \in DOMAIN m \cup {k} |-> IF x = k THEN v ELSE m[x]]

\* The parser's fields after initParsing, for a main template text.
initParsing(text, conditionVars) ==
    [templateText |-> text,
     conditionVars |-> conditionVars,
     varTab |-> <<>>,
     varNameToNoMap |-> <<>>,
     varRefTab |-> <<>>,
     blockTab |-> <<>>,
     blockNameToNoMap |-> <<>>,
     currentNestingLevel |-> 0,
     openBlocksTab |-> [i \in 0 .. maxNestingLevel |-> 0],
     condLevel |-> -1,
     condEnabled |-> [i \in 0 .. maxCondLevels - 1 |-> FALSE],
     condPassed |-> [i \in 0 .. maxCondLevels - 1 |-> FALSE],
     resumeCmdParsingFromStart |-> FALSE,
     p |-> 0,
     errorClass |-> "",
     error |-> ""]

\* registerBlock appends the new block; its number is Len(ps.blockTab) before.
registerBlock(ps, blockName) ==
    LET blockNo == Len(ps.blockTab)
        btr == [blockName |-> blockName,
                nextWithSameName |-> IF blockName # NoName THEN lookupBlockName(ps, blockName) ELSE -1,
                tPosBegin |-> Unset,
                tPosContentsBegin |-> Unset,
                tPosContentsEnd |-> Unset,
                tPosEnd |-> Unset,
                nestingLevel |-> ps.currentNestingLevel,
                parentBlockNo |-> IF ps.currentNestingLevel > 0
                                  THEN ps.openBlocksTab[ps.currentNestingLevel - 1]
                                  ELSE -1,
                definitionIsOpen |-> TRUE,
                blockVarNoToVarNoMap |-> <<>>,
                firstVarRefNo |-> -1,
                dummy |-> FALSE]
    IN  [ps EXCEPT !.blockNameToNoMap = IF blockName # NoName
                                        THEN MapSet(ps.blockNameToNoMap, blockName, blockNo)
                                        ELSE @,
                   !.blockTab = Append(@, btr)]

beginMainBlock(ps) ==
    LET ps1 == registerBlock(ps, NoName)
        blockNo == Len(ps.blockTab)
    IN  [ps1 EXCEPT !.blockTab[blockNo + 1].tPosBegin = 0,
                    !.blockTab[blockNo + 1].tPosContentsBegin = 0,
                    !.openBlocksTab[ps.currentNestingLevel] = ToInt16(blockNo),
                    !.currentNestingLevel = @ + 1]

endMainBlock(ps) ==
    [ps EXCEPT !.blockTab[1].tPosContentsEnd = Len(ps.templateText),
               !.blockTab[1].tPosEnd = Len(ps.templateText),
               !.blockTab[1].definitionIsOpen = FALSE,
               !.currentNestingLevel = @ - 1]

\* Variant: the last block, when it is a dummy block, is extended also over a gap.
excludeTemplateRange_WithoutGap(ps, tPosBegin, tPosEnd) ==
    LET n == Len(ps.blockTab)
    IN  IF n > 0 /\ ps.blockTab[n].dummy
        THEN [ps EXCEPT !.blockTab[n].tPosContentsEnd = tPosEnd,
                        !.blockTab[n].tPosEnd = tPosEnd]
        ELSE [registerBlock(ps, NoName) EXCEPT
                        !.blockTab[n + 1].tPosBegin = tPosBegin,
                        !.blockTab[n + 1].tPosContentsBegin = tPosBegin,
                        !.blockTab[n + 1].tPosContentsEnd = tPosEnd,
                        !.blockTab[n + 1].tPosEnd = tPosEnd,
                        !.blockTab[n + 1].definitionIsOpen = FALSE,
                        !.blockTab[n + 1].dummy = TRUE]

excludeTemplateRange(ps, tPosBegin, tPosEnd) ==
    LET n == Len(ps.blockTab)
    IN  IF n > 0 /\ ps.blockTab[n].dummy /\ ps.blockTab[n].tPosEnd = tPosBegin
        THEN [ps EXCEPT !.blockTab[n].tPosContentsEnd = tPosEnd,
                        !.blockTab[n].tPosEnd = tPosEnd]
        ELSE [registerBlock(ps, NoName) EXCEPT
                        !.blockTab[n + 1].tPosBegin = tPosBegin,
                        !.blockTab[n + 1].tPosContentsBegin = tPosBegin,
                        !.blockTab[n + 1].tPosContentsEnd = tPosEnd,
                        !.blockTab[n + 1].tPosEnd = tPosEnd,
                        !.blockTab[n + 1].definitionIsOpen = FALSE,
                        !.blockTab[n + 1].dummy = TRUE]

\* Variant: every branch counts as enabled.
isCondEnabled_Always(ps, condLevel2) == TRUE

isCondEnabled(ps, condLevel2) ==
    IF condLevel2 < 0 THEN TRUE ELSE ps.condEnabled[condLevel2]

\* conditionalExclude returns !isCondEnabled(condLevel); this is its effect.
conditionalExclude(ps, tPosBegin, tPosEnd) ==
    IF isCondEnabled(ps, ps.condLevel) THEN ps
    ELSE excludeTemplateRange(ps, tPosBegin, tPosEnd)

\* Boolean(v)
Boolean(v) ==
    CASE v.t = "boolean" -> v.b
      [] v.t = "number"  -> v.n # 0
      [] v.t = "string"  -> v.s # <<>>
      [] OTHER           -> FALSE

\* Number(v) for the values that the model compares: booleans, numbers and null.
ToNumber(v) ==
    CASE v.t = "boolean" -> (IF v.b THEN 1 ELSE 0)
      [] v.t = "number"  -> v.n
      [] OTHER           -> 0

\* The value of an operand `name` or `!name`; NoOperand when it names no condition variable.
NoOperand == [t |-> "none", b |-> FALSE, n |-> 0, s |-> <<>>]

operandValue(ps, operand) ==
    LET neg == operand # <<>> /\ operand[1] = "!"
        id == IF neg THEN trim(Tail(operand)) ELSE operand
    IN  IF id \notin DOMAIN ps.conditionVars THEN NoOperand
        ELSE IF neg THEN BoolVal(~Boolean(ps.conditionVars[id]))
        ELSE ps.conditionVars[id]

\* The JavaScript expression `left > right` over such operands.
greaterThan(ps, left, right) ==
    IF operandValue(ps, left) = NoOperand \/ operandValue(ps, right) = NoOperand THEN "error"
    ELSE IF ToNumber(operandValue(ps, left)) > ToNumber(operandValue(ps, right)) THEN "true"
    ELSE "false"

\* evaluateCondition for the JavaScript expressions the model's templates use:
\* `name`, `!name` and comparisons `operand > operand`. "error" stands for the
\* TemplateSyntaxError thrown when the expression does not compile (empty, or an
\* operand missing) or names no condition variable (a ReferenceError in the
\* strict-mode function).
evaluateCondition(ps, condExpr) ==
    LET e == trim(condExpr)
        neg == e # <<>> /\ e[1] = "!"
        id == IF neg THEN trim(Tail(e)) ELSE e
        gt == indexOf(e, <<">">>, 0)
    IN  IF gt # -1 THEN greaterThan(ps, trim(substring(e, 0, gt)), trim(substringFrom(e, gt + 1)))
        ELSE IF id \notin DOMAIN ps.conditionVars THEN "error"
        ELSE IF Boolean(ps.conditionVars[id]) # neg THEN "true" ELSE "false"

InvalidCondition == "Invalid condition expression."

\* Variant: the limit is reached one level earlier.
processIfCmd_OneLess(ps, parms, cmdTPosBegin, cmdTPosEnd) ==
    LET ps1 == excludeTemplateRange(ps, cmdTPosBegin, cmdTPosEnd)
        lvl == ps1.condLevel + 1
        ev == IF isCondEnabled(ps1, lvl - 1) THEN evaluateCondition(ps1, parms) ELSE "false"
    IN  IF ps1.condLevel >= maxCondLevels - 2
        THEN Throw(ps1, SyntaxError, "Too many nested $if commands.")
        ELSE IF ev = "error"
        THEN Throw([ps1 EXCEPT !.condLevel = lvl], SyntaxError, InvalidCondition)
        ELSE [ps1 EXCEPT !.condLevel = lvl,
                         !.condEnabled[lvl] = (ev = "true"),
                         !.condPassed[lvl] = (ev = "true")]

\* Variant: the expression is evaluated in a disabled context too.
processIfCmd_Evaluates(ps, parms, cmdTPosBegin, cmdTPosEnd) ==
    LET ps1 == excludeTemplateRange(ps, cmdTPosBegin, cmdTPosEnd)
        lvl == ps1.condLevel + 1
        ev == IF evaluateCondition(ps1, parms) = "error" THEN "error"
              ELSE IF isCondEnabled(ps1, lvl - 1) THEN evaluateCondition(ps1, parms) ELSE "false"
    IN  IF ps1.condLevel >= maxCondLevels - 1
        THEN Throw(ps1, SyntaxError, "Too many nested $if commands.")
        ELSE IF ev = "error"
        THEN Throw([ps1 EXCEPT !.condLevel = lvl], SyntaxError, InvalidCondition)
        ELSE [ps1 EXCEPT !.condLevel = lvl,
                         !.condEnabled[lvl] = (ev = "true"),
                         !.condPassed[lvl] = (ev = "true")]

processIfCmd(ps, parms, cmdTPosBegin, cmdTPosEnd) ==
    LET ps1 == excludeTemplateRange(ps, cmdTPosBegin, cmdTPosEnd)
        lvl == ps1.condLevel + 1
        ev == IF isCondEnabled(ps1, lvl - 1) THEN evaluateCondition(ps1, parms) ELSE "false"
    IN  IF ps1.condLevel >= maxCondLevels - 1
        THEN Throw(ps1, SyntaxError, "Too many nested $if commands.")
        ELSE IF ev = "error"
        THEN Throw([ps1 EXCEPT !.condLevel = lvl], SyntaxError, InvalidCondition)
        ELSE [ps1 EXCEPT !.condLevel = lvl,
                         !.condEnabled[lvl] = (ev = "true"),
                         !.condPassed[lvl] = (ev = "true")]

\* Variant: a branch taken earlier in the chain is not looked at.
branchOpen_IgnorePassed(ps, lvl) == isCondEnabled(ps, lvl - 1)

\* The test that $elseIf and $else make before a branch of level lvl can be enabled.
branchOpen(ps, lvl) == isCondEnabled(ps, lvl - 1) /\ ~ps.condPassed[lvl]

processElseIfCmd(ps, parms, cmdTPosBegin, cmdTPosEnd) ==
    LET ps1 == excludeTemplateRange(ps, cmdTPosBegin, cmdTPosEnd)
        lvl == ps1.condLevel
        ev == IF branchOpen(ps1, lvl)
              THEN evaluateCondition(ps1, parms)
              ELSE "false"
    IN  IF lvl < 0
        THEN Throw(ps1, SyntaxError, "$elseIf without matching $if.")
        ELSE IF ev = "error"
        THEN Throw(ps1, SyntaxError, InvalidCondition)
        ELSE [ps1 EXCEPT !.condEnabled[lvl] = (ev = "true"),
                         !.condPassed[lvl] = IF ev = "true" THEN TRUE ELSE @]

processElseCmd(ps, parms, cmdTPosBegin, cmdTPosEnd) ==
    LET ps1 == excludeTemplateRange(ps, cmdTPosBegin, cmdTPosEnd)
        lvl == ps1.condLevel
        enabled == branchOpen(ps1, lvl)
    IN  IF ~isStringBlank(parms)
        THEN Throw(ps1, SyntaxError, "Invalid parameters for $else command.")
        ELSE IF lvl < 0
        THEN Throw(ps1, SyntaxError, "$else without matching $if.")
        ELSE [ps1 EXCEPT !.condEnabled[lvl] = enabled,
                         !.condPassed[lvl] = IF enabled THEN TRUE ELSE @]

\* Variant: an $endIf in a branch that is not kept closes nothing.
processEndIfCmd_EnabledOnly(ps, parms, cmdTPosBegin, cmdTPosEnd) ==
    LET ps1 == excludeTemplateRange(ps, cmdTPosBegin, cmdTPosEnd)
    IN  IF ~isStringBlank(parms)
        THEN Throw(ps1, SyntaxError, "Invalid parameters for $endIf command.")
        ELSE IF ps1.condLevel < 0
        THEN Throw(ps1, SyntaxError, "$endif without matching $if.")
        ELSE IF ~isCondEnabled(ps1, ps1.condLevel - 1) THEN ps1
        ELSE [ps1 EXCEPT !.condLevel = @ - 1]

processEndIfCmd(ps, parms, cmdTPosBegin, cmdTPosEnd) ==
    LET ps1 == excludeTemplateRange(ps, cmdTPosBegin, cmdTPosEnd)
    IN  IF ~isStringBlank(parms)
        THEN Throw(ps1, SyntaxError, "Invalid parameters for $endIf command.")
        ELSE IF ps1.condLevel < 0
        THEN Throw(ps1, SyntaxError, "$endif without matching $if.")
        ELSE [ps1 EXCEPT !.condLevel = @ - 1]

\* Variant: the overflow is reported one level earlier.
processBeginBlockCmd_OneLess(ps, parms, cmdTPosBegin, cmdTPosEnd) ==
    LET p0 == skipBlanks(parms, 0)
        p == skipNonBlanks(parms, p0)
        blockName == substring(parms, p0, p)
        blockNo == Len(ps.blockTab)
        ps1 == registerBlock(ps, blockName)
        ps2 == [ps1 EXCEPT !.blockTab[blockNo + 1].tPosBegin = cmdTPosBegin,
                           !.blockTab[blockNo + 1].tPosContentsBegin = cmdTPosEnd,
                           !.openBlocksTab[ps.currentNestingLevel] = ToInt16(blockNo),
                           !.currentNestingLevel = @ + 1]
    IN  IF ~isCondEnabled(ps, ps.condLevel)
        THEN excludeTemplateRange(ps, cmdTPosBegin, cmdTPosEnd)
        ELSE IF p0 >= Len(parms)
        THEN Throw(ps, SyntaxError, "Missing block name in $beginBlock command.")
        ELSE IF ~isRestOfStringBlank(parms, p)
        THEN Throw(ps, SyntaxError, "Extra parameter in $beginBlock command.")
        ELSE IF ps2.currentNestingLevel >= maxNestingLevel
        THEN Throw(ps2, SyntaxError, "Block nesting overflow.")
        ELSE ps2

processBeginBlockCmd(ps, parms, cmdTPosBegin, cmdTPosEnd) ==
    LET p0 == skipBlanks(parms, 0)
        p == skipNonBlanks(parms, p0)
        blockName == substring(parms, p0, p)
        blockNo == Len(ps.blockTab)
        ps1 == registerBlock(ps, blockName)
        ps2 == [ps1 EXCEPT !.blockTab[blockNo + 1].tPosBegin = cmdTPosBegin,
                           !.blockTab[blockNo + 1].tPosContentsBegin = cmdTPosEnd,
                           !.openBlocksTab[ps.currentNestingLevel] = ToInt16(blockNo),
                           !.currentNestingLevel = @ + 1]
    IN  IF ~isCondEnabled(ps, ps.condLevel)
        THEN excludeTemplateRange(ps, cmdTPosBegin, cmdTPosEnd)
        ELSE IF p0 >= Len(parms)
        THEN Throw(ps, SyntaxError, "Missing block name in $beginBlock command.")
        ELSE IF ~isRestOfStringBlank(parms, p)
        THEN Throw(ps, SyntaxError, "Extra parameter in $beginBlock command.")
        ELSE IF ps2.currentNestingLevel > maxNestingLevel
        THEN Throw(ps2, SyntaxError, "Block nesting overflow.")
        ELSE ps2

processEndBlockCmd(ps, parms, cmdTPosBegin, cmdTPosEnd) ==
    LET p0 == skipBlanks(parms, 0)
        p == skipNonBlanks(parms, p0)
        blockName == substring(parms, p0, p)
        blockNo == lookupBlockName(ps, blockName)
        ps1 == [ps EXCEPT !.currentNestingLevel = @ - 1]
        btr == At(ps.blockTab, blockNo)
    IN  IF ~isCondEnabled(ps, ps.condLevel)
        THEN excludeTemplateRange(ps, cmdTPosBegin, cmdTPosEnd)
        ELSE IF p0 >= Len(parms)
        THEN Throw(ps, SyntaxError, "Missing block name in $endBlock command.")
        ELSE IF ~isRestOfStringBlank(parms, p)
        THEN Throw(ps, SyntaxError, "Extra parameter in $endBlock command.")
        ELSE IF blockNo = -1
        THEN Throw(ps, SyntaxError, "Undefined block name in $endBlock command.")
        ELSE IF ~btr.definitionIsOpen
        THEN Throw(ps1, SyntaxError, "Multiple $endBlock commands for block.")
        ELSE IF btr.nestingLevel # ps1.currentNestingLevel
        THEN Throw(ps1, SyntaxError, "Block nesting level mismatch at $endBlock command.")
        ELSE [ps1 EXCEPT !.blockTab[blockNo + 1].tPosContentsEnd = cmdTPosBegin,
                         !.blockTab[blockNo + 1].tPosEnd = cmdTPosEnd,
                         !.blockTab[blockNo + 1].definitionIsOpen = FALSE]

\* Variant: open block definitions are accepted.
checkBlockDefinitionsComplete_Skipped(ps) == ps

checkBlockDefinitionsComplete(ps) ==
    IF \E i \in 1 .. Len(ps.blockTab) : ps.blockTab[i].definitionIsOpen
    THEN Throw(ps, SyntaxError, "Missing $endBlock command in template for block.")
    ELSE IF ps.currentNestingLevel # 0
    THEN Throw(ps, SyntaxError, "Block nesting level error at end of template.")
    ELSE ps

\* A text of the greatest size that an expanded template may have. The files have it
\* in a packed form, as one sign that stands for these characters.
GreatText == [i \in 1 .. maxInclTemplateSize |-> "a"]
PackedGreatText == <<"a * 1000000">>

\* The text that the promise of pParms.loadTemplateFile is fulfilled with.
loadTemplateFile(files, templateName) ==
    IF files[templateName] = PackedGreatText THEN GreatText ELSE files[templateName]

\* pParms.loadTemplateFile: the model's loader reads a fixed set of files.
LoadFails(files, templateName) == templateName \notin DOMAIN files

insertSubTemplate(ps, files, subTemplateName, tPos1, tPos2) ==
    LET subTemplateText == loadTemplateFile(files, subTemplateName)
    IN  IF LoadFails(files, subTemplateName)
        THEN Throw(ps, "LoaderError", "The loader rejected.")
        ELSE IF Len(ps.templateText) + Len(subTemplateText) > maxInclTemplateSize
        THEN Throw(ps, PlainError, "Subtemplate include aborted.")
        ELSE [ps EXCEPT !.templateText = substring(ps.templateText, 0, tPos1) \o subTemplateText
                                            \o substringFrom(ps.templateText, tPos2),
                        !.resumeCmdParsingFromStart = TRUE]

processIncludeCmd(ps, files, parms, cmdTPosBegin, cmdTPosEnd) ==
    LET p0a == skipBlanks(parms, 0)
        quoted == parms[p0a + 1] = "\""
        p0 == IF quoted THEN p0a + 1 ELSE p0a
        p == IF quoted THEN indexOf(parms, <<"\"">>, p0) ELSE skipNonBlanks(parms, p0)
        subTemplateName == substring(parms, p0, p)
    IN  IF ~isCondEnabled(ps, ps.condLevel)
        THEN excludeTemplateRange(ps, cmdTPosBegin, cmdTPosEnd)
        ELSE IF p0a >= Len(parms)
        THEN Throw(ps, SyntaxError, "Missing subtemplate name in $include command.")
        ELSE IF quoted /\ p = -1
        THEN Throw(ps, SyntaxError, "Missing closing quote for subtemplate name in $include command.")
        ELSE IF ~isRestOfStringBlank(parms, p + 1)
        THEN Throw(ps, SyntaxError, "Extra parameter in $include command.")
        ELSE insertSubTemplate(ps, files, subTemplateName, cmdTPosBegin, cmdTPosEnd)

beginBlockCmd == <<"$", "b", "e", "g", "i", "n", "B", "l", "o", "c", "k">>
endBlockCmd == <<"$", "e", "n", "d", "B", "l", "o", "c", "k">>
includeCmd == <<"$", "i", "n", "c", "l", "u", "d", "e">>
ifCmd == <<"$", "i", "f">>
elseIfCmd == <<"$", "e", "l", "s", "e", "I", "f">>
elseCmd == <<"$", "e", "l", "s", "e">>
endIfCmd == <<"$", "e", "n", "d", "I", "f">>

\* processTemplateCommand: [ps, ret], ret FALSE when the comment is normal template text.
\* Variant: an unknown command is left in the template as text.
processTemplateCommand_UnknownAsText(ps, files, cmdLine, cmdTPosBegin, cmdTPosEnd) ==
    LET p0 == skipBlanks(cmdLine, 0)
        p == skipNonBlanks(cmdLine, p0)
        cmd == substring(cmdLine, p0, p)
        parms == substringFrom(cmdLine, p)
    IN  IF p0 >= Len(cmdLine) THEN [ps |-> ps, ret |-> FALSE]
        ELSE CASE cmd = beginBlockCmd ->
                    [ps |-> processBeginBlockCmd(ps, parms, cmdTPosBegin, cmdTPosEnd), ret |-> TRUE]
               [] cmd = endBlockCmd ->
                    [ps |-> processEndBlockCmd(ps, parms, cmdTPosBegin, cmdTPosEnd), ret |-> TRUE]
               [] cmd = includeCmd ->
                    [ps |-> processIncludeCmd(ps, files, parms, cmdTPosBegin, cmdTPosEnd), ret |-> TRUE]
               [] cmd = ifCmd ->
                    [ps |-> processIfCmd(ps, parms, cmdTPosBegin, cmdTPosEnd), ret |-> TRUE]
               [] cmd = elseIfCmd ->
                    [ps |-> processElseIfCmd(ps, parms, cmdTPosBegin, cmdTPosEnd), ret |-> TRUE]
               [] cmd = elseCmd ->
                    [ps |-> processElseCmd(ps, parms, cmdTPosBegin, cmdTPosEnd), ret |-> TRUE]
               [] cmd = endIfCmd ->
                    [ps |-> processEndIfCmd(ps, parms, cmdTPosBegin, cmdTPosEnd), ret |-> TRUE]
               [] OTHER ->
                    IF startsWith(cmd, <<"$">>) /\ ~startsWith(cmd, <<"$", "{">>)
                    THEN [ps |-> ps, ret |-> FALSE]
                    ELSE [ps |-> ps, ret |-> FALSE]

processTemplateCommand(ps, files, cmdLine, cmdTPosBegin, cmdTPosEnd) ==
    LET p0 == skipBlanks(cmdLine, 0)
        p == skipNonBlanks(cmdLine, p0)
        cmd == substring(cmdLine, p0, p)
        parms == substringFrom(cmdLine, p)
    IN  IF p0 >= Len(cmdLine) THEN [ps |-> ps, ret |-> FALSE]
        ELSE CASE cmd = beginBlockCmd ->
                    [ps |-> processBeginBlockCmd(ps, parms, cmdTPosBegin, cmdTPosEnd), ret |-> TRUE]
               [] cmd = endBlockCmd ->
                    [ps |-> processEndBlockCmd(ps, parms, cmdTPosBegin, cmdTPosEnd), ret |-> TRUE]
               [] cmd = includeCmd ->
                    [ps |-> processIncludeCmd(ps, files, parms, cmdTPosBegin, cmdTPosEnd), ret |-> TRUE]
               [] cmd = ifCmd ->
                    [ps |-> processIfCmd(ps, parms, cmdTPosBegin, cmdTPosEnd), ret |-> TRUE]
               [] cmd = elseIfCmd ->
                    [ps |-> processElseIfCmd(ps, parms, cmdTPosBegin, cmdTPosEnd), ret |-> TRUE]
               [] cmd = elseCmd ->
                    [ps |-> processElseCmd(ps, parms, cmdTPosBegin, cmdTPosEnd), ret |-> TRUE]
               [] cmd = endIfCmd ->
                    [ps |-> processEndIfCmd(ps, parms, cmdTPosBegin, cmdTPosEnd), ret |-> TRUE]
               [] OTHER ->
                    IF startsWith(cmd, <<"$">>) /\ ~startsWith(cmd, <<"$", "{">>)
                    THEN [ps |-> Throw(ps, SyntaxError, "Unknown command in template."), ret |-> TRUE]
                    ELSE [ps |-> ps, ret |-> FALSE]

\* processShortFormTemplateCommand: [ps, ret], ret FALSE when the command is not recognized.
processShortFormTemplateCommand(ps, cmdLine, cmdTPosBegin, cmdTPosEnd) ==
    LET p0 == skipBlanks(cmdLine, 0)
        cmd1 == cmdLine[p0 + 1]
        p == IF cmd1 = "/" /\ p0 + 1 < Len(cmdLine) /\ ~isWhiteSpaceAt(cmdLine, p0 + 1)
             THEN p0 + 2
             ELSE p0 + 1
        cmd == substring(cmdLine, p0, p)
        parms == trim(substringFrom(cmdLine, p))
    IN  IF p0 >= Len(cmdLine) THEN [ps |-> ps, ret |-> FALSE]
        ELSE CASE cmd = <<"?">> ->
                    [ps |-> processIfCmd(ps, parms, cmdTPosBegin, cmdTPosEnd), ret |-> TRUE]
               [] cmd = <<":">> ->
                    [ps |-> IF Len(parms) > 0
                            THEN processElseIfCmd(ps, parms, cmdTPosBegin, cmdTPosEnd)
                            ELSE processElseCmd(ps, parms, cmdTPosBegin, cmdTPosEnd),
                     ret |-> TRUE]
               [] cmd = <<"/", "?">> ->
                    [ps |-> processEndIfCmd(ps, parms, cmdTPosBegin, cmdTPosEnd), ret |-> TRUE]
               [] OTHER -> [ps |-> ps, ret |-> FALSE]

\* The start of the next command from position ps.p (p0, -1 when there is none) and its form.
nextCommandStart(ps, shortFormEnabled) ==
    LET text == ps.templateText
        p0 == indexOf(text, cmdStartStr, ps.p)
        p2 == indexOf(substring(text, ps.p, p0), cmdStartStrShort, 0)
    IN  IF shortFormEnabled /\ p0 # ps.p
        THEN IF p0 = -1
             THEN [p0 |-> indexOf(text, cmdStartStrShort, ps.p), shortForm |-> TRUE]
             ELSE IF p2 # -1
             THEN [p0 |-> ps.p + p2, shortForm |-> TRUE]
             ELSE [p0 |-> p0, shortForm |-> FALSE]
        ELSE [p0 |-> p0, shortForm |-> FALSE]

\* One iteration of the loop of parseTemplateCommands that finds a short form command at p0.
shortFormIteration(ps, p0) ==
    LET text == ps.templateText
        ps1 == conditionalExclude(ps, ps.p, p0)
        pe == indexOf(text, cmdEndStrShort, p0 + Len(cmdStartStrShort))
        p == pe + Len(cmdEndStrShort)
        cmdLine == substring(text, p0 + Len(cmdStartStrShort), p - Len(cmdEndStrShort))
        r == processShortFormTemplateCommand(ps1, cmdLine, p0, p)
    IN  IF pe = -1
        THEN [conditionalExclude(ps1, p0, p0 + Len(cmdStartStrShort))
                 EXCEPT !.p = p0 + Len(cmdStartStrShort)]
        ELSE IF Failed(r.ps) THEN r.ps
        ELSE IF ~r.ret THEN [conditionalExclude(r.ps, p0, p) EXCEPT !.p = p]
        ELSE [r.ps EXCEPT !.p = p]

\* Variant: scanning goes on behind the command also after an inclusion.
resumePosition_BehindCommand(ps, p0, p) == p

\* Where the loop of parseTemplateCommands goes on after the long form command p0 .. p.
resumePosition(ps, p0, p) == IF ps.resumeCmdParsingFromStart THEN p0 ELSE p

\* The iteration for the long form command p0 .. p after processTemplateCommand returned
\* r: a comment that is no command is normal template text.
longFormProcessed(r, p0, p) ==
    IF Failed(r.ps) THEN r.ps
    ELSE IF r.ret THEN [r.ps EXCEPT !.p = resumePosition(r.ps, p0, p)]
    ELSE [conditionalExclude(r.ps, p0, p) EXCEPT !.p = resumePosition(r.ps, p0, p)]

\* The iteration for the long form command at p0 whose cmdEndStr is at pe, ps1 being the
\* parser after the text before the command.
longFormCommand(ps1, files, p0, pe) ==
    IF pe = -1
    THEN Throw(ps1, SyntaxError, "Invalid HTML comment in template.")
    ELSE longFormProcessed(
             processTemplateCommand([ps1 EXCEPT !.resumeCmdParsingFromStart = FALSE], files,
                                    substring(ps1.templateText, p0 + Len(cmdStartStr), pe),
                                    p0, pe + Len(cmdEndStr)),
             p0, pe + Len(cmdEndStr))

\* One iteration of the loop of parseTemplateCommands that finds a long form command at p0.
longFormIteration(ps, files, p0) ==
    longFormCommand(conditionalExclude(ps, ps.p, p0), files, p0,
                    indexOf(ps.templateText, cmdEndStr, p0 + Len(cmdStartStr)))

registerVariable(ps, varName) ==
    [ps EXCEPT !.varTab = Append(@, varName),
               !.varNameToNoMap = MapSet(@, varName, Len(ps.varTab))]

registerVariableReference(ps, varName, tPosBegin, tPosEnd) ==
    LET ps1 == IF lookupVariableName(ps, varName) = -1 THEN registerVariable(ps, varName) ELSE ps
        vrtr == [varNo |-> lookupVariableName(ps1, varName),
                 tPosBegin |-> tPosBegin,
                 tPosEnd |-> tPosEnd,
                 blockNo |-> Unset,
                 blockVarNo |-> Unset]
    IN  [ps1 EXCEPT !.varRefTab = Append(@, vrtr)]

\* The loop of parseTemplateVariables, from position p.
RECURSIVE parseTemplateVariablesFrom(_, _)
\* Variant: the placeholders in the ranges excluded are passed over.
parseTemplateVariablesFrom_KeptOnly(ps, p) ==
    LET p0 == indexOf(ps.templateText, <<"$", "{">>, p)
        pe == indexOf(ps.templateText, <<"}">>, p0)
        varName == trim(substring(ps.templateText, p0 + 2, pe))
        excluded == \E i \in 1 .. Len(ps.blockTab) :
                        /\ ps.blockTab[i].dummy
                        /\ ps.blockTab[i].tPosBegin <= p0 /\ p0 < ps.blockTab[i].tPosEnd
    IN  IF p0 = -1 THEN ps
        ELSE IF excluded THEN parseTemplateVariablesFrom(ps, p0 + 2)
        ELSE IF pe = -1
        THEN Throw(ps, SyntaxError, "Invalid variable reference in template.")
        ELSE IF Len(varName) = 0
        THEN Throw(ps, SyntaxError, "Empty variable name in template.")
        ELSE parseTemplateVariablesFrom(registerVariableReference(ps, varName, p0, pe + 1), pe + 1)

parseTemplateVariablesFrom(ps, p) ==
    LET p0 == indexOf(ps.templateText, <<"$", "{">>, p)
        pe == indexOf(ps.templateText, <<"}">>, p0)
        varName == trim(substring(ps.templateText, p0 + 2, pe))
    IN  IF p0 = -1 THEN ps
        ELSE IF pe = -1
        THEN Throw(ps, SyntaxError, "Invalid variable reference in template.")
        ELSE IF Len(varName) = 0
        THEN Throw(ps, SyntaxError, "Empty variable name in template.")
        ELSE parseTemplateVariablesFrom(registerVariableReference(ps, varName, p0, pe + 1), pe + 1)

parseTemplateVariables(ps) == parseTemplateVariablesFrom(ps, 0)

\* The loop of associateVariablesWithBlocks.
RECURSIVE associateLoop(_, _, _, _)
\* Variant: a block, once entered, is left for a block that begins only.
associateLoop_NeverLeaves(ps, varRefNo, activeBlockNo, nextBlockNo) ==
    LET blockTab_ == ps.blockTab
        vrtr == At(ps.varRefTab, varRefNo)
        varRefTPos == vrtr.tPosBegin
        btr == At(blockTab_, activeBlockNo)
        blockVarNo == Len(btr.blockVarNoToVarNoMap)
    IN  IF varRefNo >= Len(ps.varRefTab) THEN ps
        ELSE IF nextBlockNo < Len(blockTab_) /\ varRefTPos >= At(blockTab_, nextBlockNo).tPosBegin
        THEN associateLoop(ps, varRefNo, nextBlockNo, nextBlockNo + 1)
        ELSE IF ~(varRefTPos >= btr.tPosBegin)
        THEN Throw(ps, PlainError, "Assertion failed.")
        ELSE associateLoop(
                [ps EXCEPT !.blockTab[activeBlockNo + 1].blockVarNoToVarNoMap = Append(@, vrtr.varNo),
                           !.blockTab[activeBlockNo + 1].firstVarRefNo =
                                IF @ = -1 THEN varRefNo ELSE @,
                           !.varRefTab[varRefNo + 1].blockNo = activeBlockNo,
                           !.varRefTab[varRefNo + 1].blockVarNo = blockVarNo],
                varRefNo + 1, activeBlockNo, nextBlockNo)

associateLoop(ps, varRefNo, activeBlockNo, nextBlockNo) ==
    LET blockTab_ == ps.blockTab
        vrtr == At(ps.varRefTab, varRefNo)
        varRefTPos == vrtr.tPosBegin
        btr == At(blockTab_, activeBlockNo)
        blockVarNo == Len(btr.blockVarNoToVarNoMap)
    IN  IF varRefNo >= Len(ps.varRefTab) THEN ps
        ELSE IF varRefTPos >= btr.tPosEnd
        THEN associateLoop(ps, varRefNo, btr.parentBlockNo, nextBlockNo)
        ELSE IF nextBlockNo < Len(blockTab_) /\ varRefTPos >= At(blockTab_, nextBlockNo).tPosBegin
        THEN associateLoop(ps, varRefNo, nextBlockNo, nextBlockNo + 1)
        ELSE IF ~(varRefTPos >= btr.tPosBegin)
        THEN Throw(ps, PlainError, "Assertion failed.")
        ELSE associateLoop(
                [ps EXCEPT !.blockTab[activeBlockNo + 1].blockVarNoToVarNoMap = Append(@, vrtr.varNo),
                           !.blockTab[activeBlockNo + 1].firstVarRefNo =
                                IF @ = -1 THEN varRefNo ELSE @,
                           !.varRefTab[varRefNo + 1].blockNo = activeBlockNo,
                           !.varRefTab[varRefNo + 1].blockVarNo = blockVarNo],
                varRefNo + 1, activeBlockNo, nextBlockNo)

associateVariablesWithBlocks(ps) == associateLoop(ps, 0, 0, 1)

\* parseTemplate after the loop of parseTemplateCommands has ended.
finishParsing(ps) ==
    LET ps1 == checkBlockDefinitionsComplete(endMainBlock(ps))
        ps2 == parseTemplateVariables(ps1)
    IN  IF Failed(ps1) THEN ps1
        ELSE IF ps1.condLevel # -1
        THEN Throw(ps1, SyntaxError, "$if without matching $endIf.")
        ELSE IF Failed(ps2) THEN ps2
        ELSE associateVariablesWithBlocks(ps2)

\* The loop of parseTemplateCommands from the state ps on, and the rest of parseTemplate.
RECURSIVE parseTemplateCommands(_, _, _)

\* The loop goes on from the state ps2 that an iteration ended in, unless it threw.
parseTemplateCommandsOn(ps2, files, shortFormEnabled) ==
    IF Failed(ps2) THEN ps2 ELSE parseTemplateCommands(ps2, files, shortFormEnabled)

\* The loop at the next command start c.
parseTemplateCommandsAt(ps, files, shortFormEnabled, c) ==
    IF c.p0 = -1 THEN finishParsing(ps)
    ELSE parseTemplateCommandsOn(IF c.shortForm THEN shortFormIteration(ps, c.p0)
                                 ELSE longFormIteration(ps, files, c.p0),
                                 files, shortFormEnabled)

parseTemplateCommands(ps, files, shortFormEnabled) ==
    parseTemplateCommandsAt(ps, files, shortFormEnabled, nextCommandStart(ps, shortFormEnabled))

\* parseTemplate as one step: the parser when the promise is settled.
parseTemplate(parms) ==
    IF LoadFails(parms.files, parms.mainTemplateName)
    THEN Throw(initParsing(<<>>, <<>>), "LoaderError", "The loader rejected.")
    ELSE parseTemplateCommands(
             beginMainBlock(initParsing(loadTemplateFile(parms.files, parms.mainTemplateName),
                                        parms.conditionVars)),
             parms.files, parms.shortFormEnabled)

\* The ParsedTemplate that Parser.main returns.
parsedTemplate(ps) ==
    [templateText |-> ps.templateText,
     varTab |-> ps.varTab,
     varRefTab |-> ps.varRefTab,
     blockTab |-> ps.blockTab,
     varNameToNoMap |-> ps.varNameToNoMap,
     blockNameToNoMap |-> ps.blockNameToNoMap]

NoTemplate == [templateText |-> <<>>, varTab |-> <<>>, varRefTab |-> <<>>, blockTab |-> <<>>,
               varNameToNoMap |-> <<>>, blockNameToNoMap |-> <<>>]

NoParser == initParsing(<<>>, <<>>)

\* ------------------------------------------------------------------------
\* MiniTemplator.ts: class MiniTemplator
\* An engine value m holds the object's fields varValuesTab, blockDynTab, blockInstTab.
\* ------------------------------------------------------------------------

templateLookupVariableName(t, varName) ==
    IF varName \in DOMAIN t.varNameToNoMap THEN t.varNameToNoMap[varName] ELSE -1

templateLookupBlockName(t, blockName) ==
    IF blockName \in DOMAIN t.blockNameToNoMap THEN t.blockNameToNoMap[blockName] ELSE -1

\* BlockDynTabRec.currBlockInstNo is "only used during generation of output": every
\* generateOutputArray assigns it before reading it, and nothing else reads it. It is
\* kept in the writer state (st.curr) and not in blockDynTab.
\* Variant: the variable values are left as they are.
reset_KeepsValues(m, t) ==
    [varValuesTab |-> IF Len(m.varValuesTab) = Len(t.varTab) THEN m.varValuesTab
                      ELSE [i \in 1 .. Len(t.varTab) |-> <<>>],
     blockDynTab |-> [i \in 1 .. Len(t.blockTab) |->
                        [instances |-> 0,
                         firstBlockInstNo |-> -1,
                         lastBlockInstNo |-> -1]],
     blockInstTab |-> <<>>]

reset(m, t) ==
    [varValuesTab |-> [i \in 1 .. Len(t.varTab) |-> <<>>],
     blockDynTab |-> [i \in 1 .. Len(t.blockTab) |->
                        [instances |-> 0,
                         firstBlockInstNo |-> -1,
                         lastBlockInstNo |-> -1]],
     blockInstTab |-> <<>>]

NoEngine == [varValuesTab |-> <<>>, blockDynTab |-> <<>>, blockInstTab |-> <<>>]

\* The assignment that setVariable and setVariableOpt make for a known variable.
assignVariable(m, varNo, varValue) ==
    [m EXCEPT !.varValuesTab[varNo + 1] = formatVariableValue(varValue)]

\* Variant: the first-instance pointer is overwritten by every added instance.
newFirstBlockInstNo_Overwrite(bdtr, blockInstNo) == blockInstNo

\* firstBlockInstNo of a block after addBlockByNo has added instance blockInstNo.
newFirstBlockInstNo(bdtr, blockInstNo) ==
    IF bdtr.firstBlockInstNo = -1 THEN blockInstNo ELSE bdtr.firstBlockInstNo

\* Variant: the level of the parent is not recorded, every instance goes under level 0.
newParentInstLevel_Zero(m, btr) == IF btr.parentBlockNo = -1 THEN -1 ELSE 0

\* Variant: the instance goes under the latest instance of the parent block.
newParentInstLevel_Latest(m, btr) ==
    IF btr.parentBlockNo = -1 THEN -1
    ELSE IF At(m.blockDynTab, btr.parentBlockNo).instances = 0 THEN 0
    ELSE At(m.blockDynTab, btr.parentBlockNo).instances - 1

\* The parentInstLevel that addBlockByNo records.
newParentInstLevel(m, btr) ==
    IF btr.parentBlockNo = -1 THEN -1
    ELSE At(m.blockDynTab, btr.parentBlockNo).instances

\* The copy of the block's variables that addBlockByNo makes.
newBlockVarTab(m, btr) ==
    [blockVarNo \in 1 .. Len(btr.blockVarNoToVarNoMap) |->
        At(m.varValuesTab, btr.blockVarNoToVarNoMap[blockVarNo])]

addBlockByNo(m, t, blockNo) ==
    LET btr == At(t.blockTab, blockNo)
        bdtr == At(m.blockDynTab, blockNo)
        blockInstNo == Len(m.blockInstTab)
        bitr == [blockNo |-> blockNo,
                 instanceLevel |-> bdtr.instances,
                 parentInstLevel |-> newParentInstLevel(m, btr),
                 nextBlockInstNo |-> -1,
                 blockVarTab |-> newBlockVarTab(m, btr)]
        linked == IF bdtr.lastBlockInstNo # -1
                  THEN [m.blockInstTab EXCEPT ![bdtr.lastBlockInstNo + 1].nextBlockInstNo = blockInstNo]
                  ELSE m.blockInstTab
    IN  [m EXCEPT !.blockInstTab = Append(linked, bitr),
                  !.blockDynTab[blockNo + 1].firstBlockInstNo = newFirstBlockInstNo(bdtr, blockInstNo),
                  !.blockDynTab[blockNo + 1].lastBlockInstNo = blockInstNo,
                  !.blockDynTab[blockNo + 1].instances = @ + 1]

\* Variant: an instance of the looked-up definition only.
addBlocksByNo_FirstOnly(m, t, firstBlockNo) ==
    IF firstBlockNo = -1 THEN m ELSE addBlockByNo(m, t, firstBlockNo)

RECURSIVE addBlocksByNo(_, _, _)
addBlocksByNo(m, t, firstBlockNo) ==
    IF firstBlockNo = -1 THEN m
    ELSE addBlocksByNo(addBlockByNo(m, t, firstBlockNo), t,
                       At(t.blockTab, firstBlockNo).nextWithSameName)

\* The number of block definitions on the same-name chain from blockNo.
RECURSIVE chainLength(_, _)
chainLength(t, blockNo) ==
    IF blockNo = -1 THEN 0 ELSE 1 + chainLength(t, At(t.blockTab, blockNo).nextWithSameName)

\* --- Output generation ---
\* A writer state st: the engine m, currBlockInstNo of every block (curr), the out array,
\* the block instances written so far in order (written), and whether an assertion has
\* failed (failed).

\* Variant: the variable's current value is written, not the instance's copy.
variableValue_Current(m, bitr, vrtr) == At(m.varValuesTab, vrtr.varNo)

\* The value that writeBlockInstance writes for a variable reference.
variableValue(m, bitr, vrtr) == bitr.blockVarTab[vrtr.blockVarNo + 1]

\* Variant: writeBlockInstances runs to the end of the chain.
stopsAt_Never(pil, parentInstLevel) == FALSE

\* Whether writeBlockInstances stops at an instance recorded under parent level pil.
stopsAt(pil, parentInstLevel) == pil > parentInstLevel

RECURSIVE writeBlockInstances(_, _, _, _)
RECURSIVE writeChunks(_, _, _, _, _, _)

\* The loop of writeBlockInstance, with its local variables tPos, subBlockNo, varRefNo.
writeChunks(t, st, blockInstNo, tPos, subBlockNo, varRefNo) ==
    LET bitr == At(st.m.blockInstTab, blockInstNo)
        blockNo == bitr.blockNo
        btr == At(t.blockTab, blockNo)
        hasVar == varRefNo # -1 /\ varRefNo < Len(t.varRefTab)
        vrtr == At(t.varRefTab, varRefNo)
        hasSub == subBlockNo < Len(t.blockTab)
        subBtr == At(t.blockTab, subBlockNo)
        isVar == hasVar /\ vrtr.tPosBegin < btr.tPosContentsEnd
        tPosV == IF isVar THEN vrtr.tPosBegin ELSE btr.tPosContentsEnd
        isSub == hasSub /\ subBtr.tPosBegin < tPosV
        tPos2 == IF isSub THEN subBtr.tPosBegin ELSE tPosV
        st1 == IF tPos2 > tPos
               THEN [st EXCEPT !.out = Append(@, substring(t.templateText, tPos, tPos2))]
               ELSE st
        varValue == variableValue(st.m, bitr, vrtr)
        st2 == writeBlockInstances(t, st1, subBlockNo, bitr.instanceLevel)
    IN  IF hasVar /\ vrtr.tPosBegin < tPos
        THEN writeChunks(t, st, blockInstNo, tPos, subBlockNo, varRefNo + 1)
        ELSE IF hasSub /\ subBtr.tPosBegin < tPos
        THEN writeChunks(t, st, blockInstNo, tPos, subBlockNo + 1, varRefNo)
        ELSE IF isSub
        THEN IF ~(subBtr.parentBlockNo = blockNo)
             THEN [st1 EXCEPT !.failed = TRUE]
             ELSE IF st2.failed THEN st2
             ELSE writeChunks(t, st2, blockInstNo, subBtr.tPosEnd, subBlockNo + 1, varRefNo)
        ELSE IF isVar
        THEN IF ~(vrtr.blockNo = blockNo)
             THEN [st1 EXCEPT !.failed = TRUE]
             ELSE writeChunks(t,
                              IF varValue # <<>> THEN [st1 EXCEPT !.out = Append(@, varValue)] ELSE st1,
                              blockInstNo, vrtr.tPosEnd, subBlockNo, varRefNo + 1)
        ELSE st1

writeBlockInstance(t, st, blockInstNo) ==
    LET btr == At(t.blockTab, At(st.m.blockInstTab, blockInstNo).blockNo)
        blockNo == At(st.m.blockInstTab, blockInstNo).blockNo
    IN  writeChunks(t, [st EXCEPT !.written = Append(@, blockInstNo)], blockInstNo,
                    btr.tPosContentsBegin, blockNo + 1, btr.firstVarRefNo)

writeBlockInstances(t, st, blockNo, parentInstLevel) ==
    LET blockInstNo == At(st.curr, blockNo)
        bitr == At(st.m.blockInstTab, blockInstNo)
        st1 == writeBlockInstance(t, st, blockInstNo)
    IN  IF blockInstNo = -1 THEN st
        ELSE IF ~(bitr.parentInstLevel >= parentInstLevel)
        THEN [st EXCEPT !.failed = TRUE]
        ELSE IF stopsAt(bitr.parentInstLevel, parentInstLevel) THEN st
        ELSE IF st1.failed THEN st1
        ELSE writeBlockInstances(
                t,
                [st1 EXCEPT !.curr[blockNo + 1] = bitr.nextBlockInstNo],
                blockNo, parentInstLevel)

\* Whether generateOutputArray adds the main block.
\* Variant: generateOutputArray relies on the caller to add the main block.
addsMainBlock_Never(m) == FALSE

\* Variant: generateOutputArray adds an instance of the main block at every call.
addsMainBlock_Always(m) == TRUE

\* Whether generateOutputArray adds the instance of the main block.
addsMainBlock(m) == m.blockDynTab[1].instances = 0

generateOutputArray(m, t) ==
    LET m1 == IF addsMainBlock(m) THEN addBlockByNo(m, t, 0) ELSE m
        curr == [i \in 1 .. Len(m1.blockDynTab) |-> m1.blockDynTab[i].firstBlockInstNo]
    IN  writeBlockInstances(t, [m |-> m1, curr |-> curr, out |-> <<>>, written |-> <<>>,
                                failed |-> FALSE], 0, -1)

\* The public methods: the engine after the call and the error thrown ("" when none).

\* Variant: an unknown variable is ignored, as setVariableOpt does.
setVariable_Silent(m, t, varName, varValue) ==
    LET varNo == templateLookupVariableName(t, varName)
    IN  IF varNo = -1 THEN [m |-> m, err |-> ""]
        ELSE [m |-> assignVariable(m, varNo, varValue), err |-> ""]

setVariable(m, t, varName, varValue) ==
    LET varNo == templateLookupVariableName(t, varName)
    IN  IF varNo = -1 THEN [m |-> m, err |-> "VariableNotDefinedError"]
        ELSE [m |-> assignVariable(m, varNo, varValue), err |-> ""]

setVariableOpt(m, t, varName, varValue) ==
    LET varNo == templateLookupVariableName(t, varName)
    IN  IF varNo = -1 THEN [m |-> m, err |-> ""]
        ELSE [m |-> assignVariable(m, varNo, varValue), err |-> ""]

setVariableEsc(m, t, varName, varValue) == setVariable(m, t, varName, StrVal(escapeHtml(varValue)))

setVariableOptEsc(m, t, varName, varValue) == setVariableOpt(m, t, varName, StrVal(escapeHtml(varValue)))

\* Variant: an unknown block is ignored, as addBlockOpt does.
addBlock_Silent(m, t, blockName) ==
    [m |-> addBlocksByNo(m, t, templateLookupBlockName(t, blockName)), err |-> ""]

addBlock(m, t, blockName) ==
    LET blockNo == templateLookupBlockName(t, blockName)
    IN  IF blockNo = -1 THEN [m |-> m, err |-> "BlockNotDefinedError"]
        ELSE [m |-> addBlocksByNo(m, t, blockNo), err |-> ""]

addBlockOpt(m, t, blockName) ==
    [m |-> addBlocksByNo(m, t, templateLookupBlockName(t, blockName)), err |-> ""]

variableExists(t, varName) == templateLookupVariableName(t, varName) # -1

blockExists(t, blockName) == templateLookupBlockName(t, blockName) # -1

\* out.join("")
join(out) == Concat(out)

\* ------------------------------------------------------------------------
\* Inputs: templates written from syntax trees, and raw template texts
\* ------------------------------------------------------------------------

MaxInst == 4                         \* addBlock calls are made while fewer instances exist

TextNode(s) == [k |-> "text", s |-> s, name |-> <<>>, body |-> <<>>, branches |-> <<>>, hasElse |-> FALSE]
VarNode(name) == [k |-> "var", s |-> <<>>, name |-> name, body |-> <<>>, branches |-> <<>>, hasElse |-> FALSE]
BlockNode(name, body) == [k |-> "block", s |-> <<>>, name |-> name, body |-> body, branches |-> <<>>, hasElse |-> FALSE]
\* branches: <<[expr, body], ...>>; with hasElse the last branch is the $else branch.
CondNode(branches, hasElse) == [k |-> "cond", s |-> <<>>, name |-> <<>>, body |-> <<>>, branches |-> branches, hasElse |-> hasElse]
Branch(expr, body) == [expr |-> expr, body |-> body]

\* The text of a long form command.
Cmd(cmd, arg) ==
    cmdStartStr \o <<" ">> \o cmd \o (IF arg = <<>> THEN <<>> ELSE <<" ">> \o arg) \o <<" ">> \o cmdEndStr

RECURSIVE Unparse(_)
RECURSIVE UnparseBranches(_, _, _)

\* The template text of a sequence of nodes.
Unparse(nodes) ==
    IF nodes = <<>> THEN <<>>
    ELSE LET n == Head(nodes)
             text == CASE n.k = "text"  -> n.s
                       [] n.k = "var"   -> <<"$", "{">> \o n.name \o <<"}">>
                       [] n.k = "block" -> Cmd(beginBlockCmd, n.name) \o Unparse(n.body)
                                              \o Cmd(endBlockCmd, n.name)
                       [] OTHER         -> UnparseBranches(n.branches, 1, n.hasElse)
                                              \o Cmd(endIfCmd, <<>>)
         IN  text \o Unparse(Tail(nodes))

UnparseBranches(branches, i, hasElse) ==
    IF i > Len(branches) THEN <<>>
    ELSE (IF i = 1 THEN Cmd(ifCmd, branches[i].expr)
          ELSE IF hasElse /\ i = Len(branches) THEN Cmd(elseCmd, <<>>)
          ELSE Cmd(elseIfCmd, branches[i].expr))
         \o Unparse(branches[i].body) \o UnparseBranches(branches, i + 1, hasElse)

nR == <<"r">>
nC == <<"c">>
nA == <<"a">>
nB == <<"b">>
vX == <<"x">>
nU == <<"u">>                        \* a name no template of the model defines

\* A table row block with a cell block in it, the cell showing a variable.
AstRowCell ==
    << TextNode(<<"T">>),
       BlockNode(nR, << TextNode(<<"[">>),
                        BlockNode(nC, << TextNode(<<"(">>), VarNode(vX), TextNode(<<")">>) >>),
                        TextNode(<<"]">>) >>),
       TextNode(<<"Z">>) >>

\* A list: one block directly in the main block, showing a variable.
AstList ==
    << TextNode(<<"L">>),
       BlockNode(nR, << TextNode(<<"(">>), VarNode(vX), TextNode(<<")">>) >>),
       TextNode(<<"M">>) >>

\* Three nested blocks.
AstNested3 ==
    << BlockNode(nA, << TextNode(<<"A">>),
                        BlockNode(nB, << TextNode(<<"B">>),
                                         BlockNode(nC, << TextNode(<<"C">>) >>) >>) >>) >>

\* A variable referenced twice in the main block, and a block beside it.
AstRootVar ==
    << TextNode(<<"A">>), VarNode(vX), BlockNode(nR, << TextNode(<<"R">>) >>), VarNode(vX), TextNode(<<"B">>) >>

\* Two blocks of the same name, the first one showing a variable.
AstSameName ==
    << BlockNode(nR, << TextNode(<<"1">>), VarNode(vX) >>),
       TextNode(<<"-">>),
       BlockNode(nR, << TextNode(<<"2">>) >>) >>

\* $if a / $elseIf b / $elseIf c / $else / $endIf
AstChain ==
    << TextNode(<<"S">>),
       CondNode(<< Branch(<<"a">>, << TextNode(<<"A">>) >>),
                   Branch(<<"b">>, << TextNode(<<"B">>) >>),
                   Branch(<<"c">>, << TextNode(<<"C">>) >>),
                   Branch(<<>>,    << TextNode(<<"D">>) >>) >>, TRUE),
       TextNode(<<"E">>) >>

\* A chain without $else inside a block, a block in one of its branches.
AstCondBlock ==
    << BlockNode(nR, << CondNode(<< Branch(<<"a">>, << TextNode(<<"A">>), VarNode(vX) >>),
                                    Branch(<<"!", "b">>, << BlockNode(nC, << TextNode(<<"C">>) >>) >>) >>,
                                 FALSE) >>) >>

NoVars == <<>>

BoolVars(names) == [names -> {BoolVal(TRUE), BoolVal(FALSE)}]

MainName == <<"m">>

\* The values that callers pass to setVariable.
Values == {StrVal(<<"V">>), StrVal(<<"<">>), NumVal(7), NullVal, UndefVal}

PlainValues == {StrVal(<<"V">>), NullVal}

InputOfAst(tree, conditionVars, values) ==
    [ast |-> tree,
     files |-> (MainName :> Unparse(tree)),
     conditionVars |-> conditionVars,
     shortFormEnabled |-> FALSE,
     values |-> values]

InputOfText(text, shortFormEnabled, values) ==
    [ast |-> <<>>,
     files |-> (MainName :> text),
     conditionVars |-> NoVars,
     shortFormEnabled |-> shortFormEnabled,
     values |-> values]

\* A placeholder that runs over the start of a block: ${a <!-- $beginBlock r -->}${x}<!-- $endBlock r -->
TextStraddle ==
    <<"$", "{", "a", " ">> \o Cmd(beginBlockCmd, nR) \o <<"}", "$", "{", "x", "}">> \o Cmd(endBlockCmd, nR)

\* A placeholder that runs over the start of a block with a block in it.
TextStraddleSub ==
    <<"$", "{", "a", " ">> \o Cmd(beginBlockCmd, nR) \o <<"}">> \o Cmd(beginBlockCmd, nC) \o <<"C">>
        \o Cmd(endBlockCmd, nC) \o Cmd(endBlockCmd, nR)

\* The same with nothing but text in the block.
TextStraddlePlain ==
    <<"$", "{", "a", " ">> \o Cmd(beginBlockCmd, nR) \o <<"}", "R">> \o Cmd(endBlockCmd, nR)

Inputs ==
    {InputOfAst(AstRowCell, NoVars, PlainValues), InputOfAst(AstNested3, NoVars, PlainValues),
     InputOfAst(AstList, NoVars, PlainValues), InputOfText(TextStraddlePlain, FALSE, {NullVal}),
     InputOfAst(AstRootVar, NoVars, Values), InputOfAst(AstSameName, NoVars, PlainValues)}
    \cup {InputOfAst(AstChain, cv, PlainValues) : cv \in BoolVars({<<"a">>, <<"b">>, <<"c">>})}
    \cup {InputOfAst(AstCondBlock, cv, PlainValues) : cv \in BoolVars({<<"a">>, <<"b">>})}
    \cup {InputOfText(TextStraddle, FALSE, {NullVal}), InputOfText(TextStraddleSub, FALSE, {NullVal})}

\* ------------------------------------------------------------------------
\* What a caller knows of a template: its names and the text of the values it gave
\* ------------------------------------------------------------------------

\* All variable names and all block names of a syntax tree.
RECURSIVE AstVars(_)
RECURSIVE AstBranchVars(_, _)
AstVars(nodes) ==
    IF nodes = <<>> THEN {}
    ELSE LET n == Head(nodes)
         IN  (CASE n.k = "var"   -> {n.name}
                [] n.k = "block" -> AstVars(n.body)
                [] n.k = "cond"  -> AstBranchVars(n.branches, 1)
                [] OTHER         -> {})
             \cup AstVars(Tail(nodes))

AstBranchVars(branches, i) ==
    IF i > Len(branches) THEN {} ELSE AstVars(branches[i].body) \cup AstBranchVars(branches, i + 1)

RECURSIVE AstBlocks(_)
RECURSIVE AstBranchBlocks(_, _)
AstBlocks(nodes) ==
    IF nodes = <<>> THEN {}
    ELSE LET n == Head(nodes)
         IN  (CASE n.k = "block" -> {n.name} \cup AstBlocks(n.body)
                [] n.k = "cond"  -> AstBranchBlocks(n.branches, 1)
                [] OTHER         -> {})
             \cup AstBlocks(Tail(nodes))

AstBranchBlocks(branches, i) ==
    IF i > Len(branches) THEN {} ELSE AstBlocks(branches[i].body) \cup AstBranchBlocks(branches, i + 1)

\* The text the documentation promises for a value given to setVariable: the empty string
\* for undefined and null, otherwise the value as a string.
Shown(v) ==
    CASE v.t = "string"  -> v.s
      [] v.t = "number"  -> NatToString(v.n)
      [] v.t = "boolean" -> IF v.b THEN <<"t", "r", "u", "e">> ELSE <<"f", "a", "l", "s", "e">>
      [] OTHER           -> <<>>

\* The same for setVariableEsc: & < > " ' replaced by their entities.
RECURSIVE Entities(_)
Entities(str) ==
    IF str = <<>> THEN <<>>
    ELSE (CASE Head(str) = "&"  -> <<"&", "a", "m", "p", ";">>
            [] Head(str) = "<"  -> <<"&", "l", "t", ";">>
            [] Head(str) = ">"  -> <<"&", "g", "t", ";">>
            [] Head(str) = "\"" -> <<"&", "q", "u", "o", "t", ";">>
            [] Head(str) = "'"  -> <<"&", "#", "3", "9", ";">>
            [] OTHER            -> <<Head(str)>>) \o Entities(Tail(str))

ShownEscaped(v) == Entities(Shown(v))

\* No value given yet: every variable of the syntax tree shows as the empty string.
NotGiven(tree) == [v \in AstVars(tree) |-> <<>>]

\* ------------------------------------------------------------------------
\* The state machine
\* ------------------------------------------------------------------------

NoRet == [kind |-> "none", err |-> "", out |-> <<>>, written |-> <<>>, val |-> FALSE]
VoidRet == [NoRet EXCEPT !.kind = "void"]
ErrorRet(err) == [NoRet EXCEPT !.kind = "error", !.err = err]
BoolRet(val) == [NoRet EXCEPT !.kind = "bool", !.val = val]
OutRet(out, written) == [NoRet EXCEPT !.kind = "out", !.out = out, !.written = written]

\* The outcome of a method that returns nothing.
CallRet(r) == IF r.err = "" THEN VoidRet ELSE ErrorRet(r.err)

Me == [varValuesTab |-> varValuesTab, blockDynTab |-> blockDynTab, blockInstTab |-> blockInstTab]

SetMe(m) ==
    /\ varValuesTab' = m.varValuesTab
    /\ blockDynTab' = m.blockDynTab
    /\ blockInstTab' = m.blockInstTab

\* No MiniTemplatorCache was constructed.
NoCache == <<>>

\* No further MiniTemplator object was constructed.
NoSessions == <<>>

InitProgram(input) ==
    /\ pParms = [files |-> input.files,
                 mainTemplateName |-> MainName,
                 conditionVars |-> input.conditionVars,
                 shortFormEnabled |-> input.shortFormEnabled]
    /\ scenario = [ast |-> input.ast, values |-> input.values]
    /\ pc = "init"
    /\ parser = NoParser
    /\ template = NoTemplate
    /\ varValuesTab = <<>>
    /\ blockDynTab = <<>>
    /\ blockInstTab = <<>>
    /\ ret = NoRet
    /\ given = NotGiven(input.ast)
    /\ calls = <<>>
    /\ turn = FALSE

InitOf(input) ==
    /\ InitProgram(input)
    /\ cache = NoCache
    /\ sessions = NoSessions

Init == \E input \in Inputs : InitOf(input)

\* parseTemplate up to the loop of parseTemplateCommands: initParsing awaits the
\* loader for the main template, beginMainBlock registers block 0.
LoadMain ==
    /\ pc = "init"
    /\ IF LoadFails(pParms.files, pParms.mainTemplateName)
       THEN /\ parser' = Throw(parser, "LoaderError", "The loader rejected.")
            /\ pc' = "failed"
       ELSE /\ parser' = beginMainBlock(initParsing(loadTemplateFile(pParms.files, pParms.mainTemplateName),
                                                    pParms.conditionVars))
            /\ pc' = "commands"
    /\ UNCHANGED <<pParms, template, varValuesTab, blockDynTab, blockInstTab, ret, given, calls, scenario, cache, sessions, turn>>

\* One iteration of the loop of parseTemplateCommands that finds a command.
ParseCommand ==
    /\ pc = "commands"
    /\ LET c == nextCommandStart(parser, pParms.shortFormEnabled)
       IN  /\ c.p0 # -1
           /\ parser' = IF c.shortForm THEN shortFormIteration(parser, c.p0)
                         ELSE longFormIteration(parser, pParms.files, c.p0)
           /\ pc' = IF Failed(parser') THEN "failed" ELSE "commands"
    /\ UNCHANGED <<pParms, template, varValuesTab, blockDynTab, blockInstTab, ret, given, calls, scenario, cache, sessions>>
    /\ turn' = ~turn

\* The loop of parseTemplateCommands finds no more command: the rest of parseTemplate,
\* and Parser.main returning the ParsedTemplate.
FinishParsing ==
    /\ pc = "commands"
    /\ nextCommandStart(parser, pParms.shortFormEnabled).p0 = -1
    /\ LET ps == finishParsing(parser)
       IN  /\ parser' = ps
           /\ pc' = IF Failed(ps) THEN "failed" ELSE "parsed"
           /\ template' = IF Failed(ps) THEN template ELSE parsedTemplate(ps)
    /\ UNCHANGED <<pParms, varValuesTab, blockDynTab, blockInstTab, ret, given, calls, scenario, cache, sessions, turn>>

\* new MiniTemplator(template)
Construct ==
    /\ pc = "parsed"
    /\ pc' = "session"
    /\ SetMe(reset(NoEngine, template))
    /\ UNCHANGED <<pParms, parser, template, ret, given, calls, scenario, cache, sessions, turn>>

\* The names that callers pass: those of the syntax tree, those of the parsed template
\* and one that neither has.
VarNames == AstVars(scenario.ast) \cup {template.varTab[i] : i \in 1 .. Len(template.varTab)} \cup {nU}

BlockNames == AstBlocks(scenario.ast) \cup DOMAIN template.blockNameToNoMap \cup {nU}

Names == VarNames \cup BlockNames

\* r: the outcome of the setter; shown: the value the documentation says the variable has then.
SetterCall(r, varName, shown) ==
    /\ pc = "session"
    /\ SetMe(r.m)
    /\ ret' = CallRet(r)
    /\ given' = IF varName \in DOMAIN given THEN [given EXCEPT ![varName] = shown] ELSE given
    /\ UNCHANGED <<pParms, pc, parser, template, calls, scenario, cache, sessions, turn>>

SetVariable(varName, varValue) ==
    SetterCall(setVariable(Me, template, varName, varValue), varName, Shown(varValue))

SetVariableOpt(varName, varValue) ==
    SetterCall(setVariableOpt(Me, template, varName, varValue), varName, Shown(varValue))

SetVariableEsc(varName, varValue) ==
    SetterCall(setVariableEsc(Me, template, varName, varValue), varName, ShownEscaped(varValue))

SetVariableOptEsc(varName, varValue) ==
    SetterCall(setVariableOptEsc(Me, template, varName, varValue), varName, ShownEscaped(varValue))

\* The names of the variables that the nodes reference outside the blocks nested in them.
RECURSIVE DirectVars(_)
RECURSIVE BranchVars(_, _)
DirectVars(nodes) ==
    IF nodes = <<>> THEN {}
    ELSE LET n == Head(nodes)
         IN  (CASE n.k = "var"  -> {n.name}
                [] n.k = "cond" -> BranchVars(n.branches, 1)
                [] OTHER        -> {})
             \cup DirectVars(Tail(nodes))

BranchVars(branches, i) ==
    IF i > Len(branches) THEN {} ELSE DirectVars(branches[i].body) \cup BranchVars(branches, i + 1)

\* The names of the variables referenced directly in the blocks called blockName, the
\* main block for NoName.
RECURSIVE BlockVars(_, _)
RECURSIVE BranchBlockVars(_, _, _)
BlockVars(nodes, blockName) ==
    IF nodes = <<>> THEN {}
    ELSE LET n == Head(nodes)
         IN  (CASE n.k = "block" -> (IF n.name = blockName THEN DirectVars(n.body) ELSE {})
                                        \cup BlockVars(n.body, blockName)
                [] n.k = "cond"  -> BranchBlockVars(n.branches, 1, blockName)
                [] OTHER         -> {})
             \cup BlockVars(Tail(nodes), blockName)

BranchBlockVars(branches, i, blockName) ==
    IF i > Len(branches) THEN {}
    ELSE BlockVars(branches[i].body, blockName) \cup BranchBlockVars(branches, i + 1, blockName)

\* A call that creates instances is recorded with the values given, up to the call, to
\* the variables that the syntax tree has in the blocks of that name.
CallRecord(blockName) ==
    [blockName |-> blockName,
     vals |-> [v \in (IF blockName = NoName THEN DirectVars(scenario.ast)
                      ELSE BlockVars(scenario.ast, blockName)) |-> given[v]]]

AdderCall(r, blockName) ==
    /\ pc = "session"
    /\ blockName \in DOMAIN template.blockNameToNoMap =>
          Len(blockInstTab) + chainLength(template, template.blockNameToNoMap[blockName]) <= MaxInst
    /\ SetMe(r.m)
    /\ ret' = CallRet(r)
    /\ calls' = IF blockName \in DOMAIN template.blockNameToNoMap
                THEN Append(calls, CallRecord(blockName))
                ELSE calls
    /\ UNCHANGED <<pParms, pc, parser, template, given, scenario, cache, sessions, turn>>

AddBlock(blockName) == AdderCall(addBlock(Me, template, blockName), blockName)

AddBlockOpt(blockName) == AdderCall(addBlockOpt(Me, template, blockName), blockName)

MainAdded == \E i \in 1 .. Len(calls) : calls[i].blockName = NoName

\* generateOutputString(): ret.out is the array of generateOutputArray, the string is join(ret.out).
GenerateOutput ==
    /\ pc = "session"
    /\ LET st == generateOutputArray(Me, template)
       IN  /\ SetMe(st.m)
           /\ ret' = IF st.failed THEN ErrorRet("Assertion failed.") ELSE OutRet(st.out, st.written)
    /\ calls' = IF MainAdded THEN calls ELSE Append(calls, CallRecord(NoName))
    /\ UNCHANGED <<pParms, pc, parser, template, given, scenario, cache, sessions, turn>>

Reset ==
    /\ pc = "session"
    /\ SetMe(reset(Me, template))
    /\ ret' = VoidRet
    /\ given' = NotGiven(scenario.ast)
    /\ calls' = <<>>
    /\ UNCHANGED <<pParms, pc, parser, template, scenario, cache, sessions, turn>>

VariableExists(varName) ==
    /\ pc = "session"
    /\ ret' = BoolRet(variableExists(template, varName))
    /\ UNCHANGED <<pParms, pc, parser, template, varValuesTab, blockDynTab, blockInstTab, given, calls, scenario, cache, sessions, turn>>

BlockExists(blockName) ==
    /\ pc = "session"
    /\ ret' = BoolRet(blockExists(template, blockName))
    /\ UNCHANGED <<pParms, pc, parser, template, varValuesTab, blockDynTab, blockInstTab, given, calls, scenario, cache, sessions, turn>>

Next ==
    \/ LoadMain
    \/ ParseCommand
    \/ FinishParsing
    \/ Construct
    \/ \E varName \in Names, varValue \in scenario.values : SetVariable(varName, varValue)
    \/ \E varName \in Names, varValue \in scenario.values : SetVariableOpt(varName, varValue)
    \/ \E varName \in Names, varValue \in scenario.values : SetVariableEsc(varName, varValue)
    \/ \E varName \in Names, varValue \in scenario.values : SetVariableOptEsc(varName, varValue)
    \/ \E blockName \in Names : AddBlock(blockName)
    \/ \E blockName \in Names : AddBlockOpt(blockName)
    \/ GenerateOutput
    \/ Reset

Spec == Init /\ [][Next]_vars

\* A main template that includes a sub-template, which has a conditional, a block and
\* another inclusion in it: I<include s>J with s = <if a><r>(<include t>)</r><else>N<endIf>
\* and t = ${x}.
SubName == <<"s">>
LeafName == <<"t">>

AstInclude ==
    << TextNode(<<"I">>),
       CondNode(<< Branch(<<"a">>, << BlockNode(nR, << TextNode(<<"(">>), VarNode(vX), TextNode(<<")">>) >>) >>),
                   Branch(<<>>, << TextNode(<<"N">>) >>) >>, TRUE),
       TextNode(<<"J">>) >>

IncludeFiles ==
    (MainName :> <<"I">> \o Cmd(includeCmd, SubName) \o <<"J">>)
    @@ (SubName :> Cmd(ifCmd, <<"a">>) \o Cmd(beginBlockCmd, nR) \o <<"(">> \o Cmd(includeCmd, LeafName)
                      \o <<")">> \o Cmd(endBlockCmd, nR) \o Cmd(elseCmd, <<>>) \o <<"N">>
                      \o Cmd(endIfCmd, <<>>))
    @@ (LeafName :> <<"$", "{", "x", "}">>)

InputsInclude ==
    {[InputOfAst(AstInclude, cv, PlainValues) EXCEPT !.files = IncludeFiles] : cv \in BoolVars({<<"a">>})}

InitInclude == \E input \in InputsInclude : InitOf(input)

SpecInclude == InitInclude /\ [][Next]_vars

\* The sessions on the templates in which names matter: a list, a block with a
\* conditional in it, and a template without a syntax tree.
InputsNames ==
    {InputOfAst(AstList, NoVars, PlainValues), InputOfText(TextStraddlePlain, FALSE, {NullVal})}
    \cup {InputOfAst(AstCondBlock, [n \in {<<"a">>, <<"b">>} |-> BoolVal(v)], PlainValues) : v \in BOOLEAN}

InitNames == \E input \in InputsNames : InitOf(input)

SpecNames == InitNames /\ [][Next]_vars

\* Templates put together from pieces of text, parsed with and without the short form
\* and rendered without any other call.
MaxPieces == 3

TextPieces ==
    {<<"a">>, <<" ">>, cmdStartStr, cmdEndStr, <<"$">>, <<"{">>, <<"}">>, cmdStartStrShort, cmdEndStrShort}

RECURSIVE TextsOf(_)
TextsOf(k) ==
    IF k = 0 THEN {<<>>}
    ELSE LET shorter == TextsOf(k - 1)
         IN  shorter \cup {text \o piece : text \in shorter, piece \in TextPieces}

InitText ==
    \E text \in TextsOf(MaxPieces), shortFormEnabled \in BOOLEAN :
        InitOf(InputOfText(text, shortFormEnabled, {NullVal}))

NextText ==
    \/ LoadMain
    \/ ParseCommand
    \/ FinishParsing
    \/ Construct
    \/ GenerateOutput

SpecText == InitText /\ [][NextText]_vars

\* Templates put together from commands and placeholders, well formed and malformed:
\* a command without end, an unknown command, block commands without name and with a
\* name that is not open, conditions that name no condition variable, placeholders
\* without end and without name, inclusions without name and with an open quote.
Placeholder(name) == <<"$", "{">> \o name \o <<"}">>

SyntaxPieces ==
    {Cmd(beginBlockCmd, nR), Cmd(endBlockCmd, nR), Cmd(endBlockCmd, nC), Cmd(beginBlockCmd, <<>>),
     Cmd(endBlockCmd, <<>>), Cmd(beginBlockCmd, <<"r", " ", "c">>),
     Cmd(ifCmd, nA), Cmd(ifCmd, nU), Cmd(ifCmd, <<>>), Cmd(elseIfCmd, nA), Cmd(elseCmd, <<>>),
     Cmd(elseCmd, nA), Cmd(endIfCmd, <<>>), Cmd(endIfCmd, nA),
     Cmd(<<"$", "f", "o", "o">>, <<>>), cmdStartStr \o <<" ">> \o beginBlockCmd,
     Placeholder(vX), Placeholder(<<>>), <<"$", "{", "x">>,
     Cmd(includeCmd, LeafName), Cmd(includeCmd, <<>>), Cmd(includeCmd, <<"\"", "t">>),
     Cmd(includeCmd, <<"t", " ", "t">>), Cmd(includeCmd, nU)}

MaxCommands == 2

RECURSIVE TemplatesOf(_)
TemplatesOf(k) ==
    IF k = 0 THEN {<<>>}
    ELSE {text \o piece : text \in TemplatesOf(k - 1), piece \in SyntaxPieces \cup {<<>>}}

\* n times the text.
RECURSIVE Repeat(_, _)
Repeat(text, n) == IF n = 0 THEN <<>> ELSE text \o Repeat(text, n - 1)

\* The name of a sub-template of the greatest size that an expanded template may have.
GreatName == <<"g">>

\* Templates that go beyond the limits of the parser: blocks and conditionals nested
\* deeper than maxNestingLevel and maxCondLevels, and the inclusion of a sub-template
\* with which the template text gets longer than maxInclTemplateSize.
LimitFiles ==
    {(MainName :> Repeat(Cmd(beginBlockCmd, nR), maxNestingLevel + 1)),
     (MainName :> Repeat(Cmd(ifCmd, nA), maxCondLevels + 1)),
     (MainName :> Cmd(includeCmd, GreatName)) @@ (GreatName :> PackedGreatText)}

InputsSyntax ==
    {[InputOfText(text, FALSE, {NullVal}) EXCEPT
         !.files = @ @@ (LeafName :> Placeholder(vX)),
         !.conditionVars = (nA :> BoolVal(TRUE))] : text \in TemplatesOf(MaxCommands)}
    \cup {[InputOfText(<<>>, FALSE, {NullVal}) EXCEPT
               !.files = files, !.conditionVars = (nA :> BoolVal(TRUE))] : files \in LimitFiles}

InitSyntax == \E input \in InputsSyntax : InitOf(input)

NextSyntax ==
    \/ LoadMain
    \/ ParseCommand
    \/ FinishParsing

SpecSyntax == InitSyntax /\ [][NextSyntax]_vars

\* Templates that include themselves: the main template directly, and through the
\* sub-template s.
SelfIncludingFiles ==
    {(MainName :> Cmd(includeCmd, MainName)),
     (MainName :> Cmd(includeCmd, SubName)) @@ (SubName :> Cmd(includeCmd, MainName))}

InputsTermination ==
    InputsSyntax
    \cup {[InputOfText(<<>>, FALSE, {NullVal}) EXCEPT !.files = files] : files \in SelfIncludingFiles}

InitTermination == \E input \in InputsTermination : InitOf(input)

\* A step of a parseTemplate call that has not settled: it is at the load of the
\* main template or in the command loop, and moves on from there.
ParserRuns ==
    /\ pc \in {"init", "commands"}
    /\ pc' \in {"commands", "failed", "parsed"}
    /\ turn' \in BOOLEAN
    /\ <<pc', turn'>> # <<pc, turn>>

\* The loader's promises are settled and the continuations of the parser are run:
\* parseTemplate goes on as long as it has a step to make.
SpecTermination ==
    /\ InitTermination
    /\ [][NextSyntax]_vars
    /\ WF_<<pc, turn>>(ParserRuns)

\* ------------------------------------------------------------------------
\* MiniTemplatorCache
\* ------------------------------------------------------------------------

\* The separator "\x1E" of the parts of a cache key, one character.
RecordSeparator == "x1E"

\* The names condition variables have, in the order Array.prototype.sort puts them.
ConditionVarNames == << <<"a">>, <<"b">> >>

\* The string that the operator + makes of a condition variable value.
stringOf(v) == IF v.t = "string" THEN v.s ELSE toString(v)

\* encodeConditionVarValue, for strings and numbers (it throws for other types, which
\* genConditionVarsCacheKey passes only for objects).
encodeConditionVarValue(v) == IF v.t = "string" THEN v.s ELSE NatToString(v.n)

\* The entries that genConditionVarsCacheKey pushes to `out` for the sorted names from
\* the i-th on; line 74 and line 77 push the value of the variable.
RECURSIVE cacheKeyParts(_, _)
cacheKeyParts(conditionVars, i) ==
    IF i > Len(ConditionVarNames) THEN <<>>
    ELSE LET varName == ConditionVarNames[i]
             varValue == conditionVars[varName]
             rest == cacheKeyParts(conditionVars, i + 1)
         IN  IF varName \notin DOMAIN conditionVars THEN rest
             ELSE IF \/ varValue.t \in {"undefined", "null"}
                     \/ varValue.t = "boolean" /\ ~varValue.b
                     \/ varValue.t = "string" /\ varValue.s = <<>>
                  THEN rest
             ELSE IF varValue.t = "boolean" THEN <<stringOf(varValue)>> \o rest
             ELSE <<stringOf(varValue) \o <<"=">> \o encodeConditionVarValue(varValue)>> \o rest

\* Array.prototype.join
RECURSIVE joinWith(_, _)
joinWith(parts, sep) ==
    IF parts = <<>> THEN <<>>
    ELSE IF Len(parts) = 1 THEN parts[1]
    ELSE parts[1] \o <<sep>> \o joinWith(Tail(parts), sep)

genConditionVarsCacheKey(conditionVars) ==
    joinWith(cacheKeyParts(conditionVars, 1), RecordSeparator)

\* The conditionVars argument of get: absent, or a Map.
NoConditionVars == [present |-> FALSE, vars |-> <<>>]
WithConditionVars(conditionVars) == [present |-> TRUE, vars |-> conditionVars]

\* cacheKey of MiniTemplatorCache.get
cacheKeyOf(templateName, conditionVars) ==
    IF conditionVars.present
    THEN templateName \o <<"|">> \o genConditionVarsCacheKey(conditionVars.vars)
    ELSE templateName

\* pParms of MiniTemplatorCache.get; completeParserParms makes an empty Map of absent
\* conditionVars. cParms.templateDir is the directory of the loader's files.
cacheParserParms(templateName, conditionVars) ==
    [mainTemplateName |-> templateName,
     conditionVars |-> conditionVars.vars,
     shortFormEnabled |-> pParms.shortFormEnabled,
     files |-> pParms.files]

\* new MiniTemplatorCache(cParms). artifacts are the ParsedTemplate objects made, an
\* object is known by its number; map is this.cache: cache key -> number of the object.
\* gets are the calls of get in call order. History: loads counts for each key the
\* calls of parseTemplate, asked are the keys get was called for, done the keys of
\* the calls of get that parsed and returned, all three since the last clear().
EmptyCache ==
    [map |-> <<>>, artifacts |-> <<>>, gets |-> <<>>, loads |-> <<>>, asked |-> {}, done |-> {}]

\* The number of elements of a function of natural numbers at a key it may not have.
Loads(loads, key) == IF key \in DOMAIN loads THEN loads[key] ELSE 0

MaxGets == 3

\* get(templateName, conditionVars) up to its return or its await: a key in the cache
\* returns a new MiniTemplator on the cached ParsedTemplate, another calls parseTemplate.
Get(templateName, conditionVars) ==
    /\ cache # NoCache
    /\ Len(cache.gets) < MaxGets
    /\ LET cacheKey == cacheKeyOf(templateName, conditionVars)
           call == [templateName |-> templateName, conditionVars |-> conditionVars,
                    cacheKey |-> cacheKey]
       IN  IF cacheKey \in DOMAIN cache.map
           THEN cache' = [cache EXCEPT
                    !.gets = Append(@, call @@ [state |-> "returned", template |-> cache.map[cacheKey]]),
                    !.asked = @ \cup {cacheKey}]
           ELSE cache' = [cache EXCEPT
                    !.gets = Append(@, call @@ [state |-> "awaiting", template |-> 0]),
                    !.loads = (cacheKey :> Loads(@, cacheKey) + 1) @@ @,
                    !.asked = @ \cup {cacheKey}]
    /\ UNCHANGED <<pParms, pc, parser, template, varValuesTab, blockDynTab, blockInstTab, ret,
                   given, calls, scenario, sessions, turn>>

\* The promise of parseTemplate that the i-th call of get awaits is settled with the
\* parser in the state ps: rejected, or fulfilled with a new ParsedTemplate, which get
\* puts into the cache and returns a new MiniTemplator on.
settle(c, i, ps) ==
    IF Failed(ps)
    THEN [c EXCEPT !.gets[i].state = "rejected"]
    ELSE [c EXCEPT
             !.artifacts = Append(@, parsedTemplate(ps)),
             !.map = (c.gets[i].cacheKey :> Len(c.artifacts) + 1) @@ @,
             !.gets[i].state = "returned",
             !.gets[i].template = Len(c.artifacts) + 1,
             !.done = @ \cup {c.gets[i].cacheKey}]

GetSettled(i) ==
    /\ cache # NoCache
    /\ i \in 1 .. Len(cache.gets)
    /\ cache.gets[i].state = "awaiting"
    /\ cache' = settle(cache, i, parseTemplate(cacheParserParms(cache.gets[i].templateName,
                                                                cache.gets[i].conditionVars)))
    /\ UNCHANGED <<pParms, pc, parser, template, varValuesTab, blockDynTab, blockInstTab, ret,
                   given, calls, scenario, sessions, turn>>

\* clear()
Clear ==
    /\ cache # NoCache
    /\ cache' = [cache EXCEPT !.map = <<>>, !.loads = <<>>, !.asked = {}, !.done = {}]
    /\ UNCHANGED <<pParms, pc, parser, template, varValuesTab, blockDynTab, blockInstTab, ret,
                   given, calls, scenario, sessions, turn>>

\* A template with a chain over two condition variables: <if a>A<elseIf b>B<else>N<endIf>
AstChoice ==
    << CondNode(<< Branch(<<"a">>, << TextNode(<<"A">>) >>),
                   Branch(<<"b">>, << TextNode(<<"B">>) >>),
                   Branch(<<>>, << TextNode(<<"N">>) >>) >>, TRUE) >>

\* A template name for which the loader has no file.
MissingName == <<"q">>

\* What the callers of get pass.
GetArguments ==
    {<<MainName, WithConditionVars(cv)>> :
        cv \in {c \in BoolVars({<<"a">>, <<"b">>}) : ~(c[<<"a">>].b /\ c[<<"b">>].b)}}
        \cup {<<MissingName, NoConditionVars>>}

InitCache ==
    /\ InitProgram(InputOfAst(AstChoice, NoVars, PlainValues))
    /\ cache = EmptyCache
    /\ sessions = NoSessions

NextCache ==
    \/ \E a \in GetArguments : Get(a[1], a[2])
    \/ \E i \in 1 .. MaxGets : GetSettled(i)
    \/ Clear

SpecCache == InitCache /\ [][NextCache]_vars

\* ------------------------------------------------------------------------
\* Two MiniTemplator objects on one ParsedTemplate
\* ------------------------------------------------------------------------

\* The calls made on the two objects.
SetCall(varName, varValue) == [method |-> "setVariable", name |-> varName, value |-> varValue]
AddCall(blockName) == [method |-> "addBlock", name |-> blockName, value |-> NullVal]
GenerateCall == [method |-> "generateOutputString", name |-> NoName, value |-> NullVal]
ResetCall == [method |-> "reset", name |-> NoName, value |-> NullVal]

\* A MiniTemplator object: its fields m, the string its last generateOutputString
\* returned and the error its last call threw. History: log, the calls made on it.
\* new MiniTemplator(t):
newMiniTemplator(t) == [m |-> reset(NoEngine, t), out |-> <<>>, err |-> "", log |-> <<>>]

\* The object o after the method call c on it.
callMethod(o, t, c) ==
    CASE c.method = "setVariable" ->
            [o EXCEPT !.m = setVariable(o.m, t, c.name, c.value).m,
                      !.err = setVariable(o.m, t, c.name, c.value).err,
                      !.log = Append(@, c)]
      [] c.method = "addBlock" ->
            [o EXCEPT !.m = addBlock(o.m, t, c.name).m,
                      !.err = addBlock(o.m, t, c.name).err,
                      !.log = Append(@, c)]
      [] c.method = "generateOutputString" ->
            [o EXCEPT !.m = generateOutputArray(o.m, t).m,
                      !.out = join(generateOutputArray(o.m, t).out),
                      !.err = IF generateOutputArray(o.m, t).failed THEN "Assertion failed." ELSE "",
                      !.log = Append(@, c)]
      [] OTHER ->
            [o EXCEPT !.m = reset(o.m, t), !.err = "", !.log = Append(@, c)]

\* Variant: the objects have one set of fields in common.
fieldsAfter_Shared(ss, s, o) ==
    [i \in DOMAIN ss |-> IF i = s THEN o ELSE [ss[i] EXCEPT !.m = o.m]]

\* The objects after a call on the s-th that left it as o: the fields varValuesTab,
\* blockDynTab and blockInstTab are made by the reset() of each object's constructor.
fieldsAfter(ss, s, o) == [ss EXCEPT ![s] = o]

MaxCalls == 4

\* The program constructs two objects on the ParsedTemplate it got.
ConstructTwo ==
    /\ pc = "parsed"
    /\ pc' = "sessions"
    /\ sessions' = <<newMiniTemplator(template), newMiniTemplator(template)>>
    /\ UNCHANGED <<pParms, parser, template, varValuesTab, blockDynTab, blockInstTab, ret, given,
                   calls, scenario, cache, turn>>

\* A call of a method on the s-th object.
SessionCall(s, c) ==
    /\ pc = "sessions"
    /\ Len(sessions[1].log) + Len(sessions[2].log) < MaxCalls
    /\ sessions' = fieldsAfter(sessions, s, callMethod(sessions[s], template, c))
    /\ UNCHANGED <<pParms, pc, parser, template, varValuesTab, blockDynTab, blockInstTab, ret,
                   given, calls, scenario, cache, turn>>

\* The calls that the callers of the two objects make.
SessionCalls ==
    {SetCall(vX, StrVal(<<"V">>)), SetCall(vX, StrVal(<<"W">>)), AddCall(nR), GenerateCall, ResetCall}

InitSessions == InitOf(InputOfAst(AstList, NoVars, PlainValues))

NextSessions ==
    \/ LoadMain
    \/ ParseCommand
    \/ FinishParsing
    \/ ConstructTwo
    \/ \E s \in 1 .. 2, c \in SessionCalls : SessionCall(s, c)

SpecSessions == InitSessions /\ [][NextSessions]_vars

\* ------------------------------------------------------------------------
\* What the documentation promises, read off the syntax tree and the history of calls
\* ------------------------------------------------------------------------

\* The truth of a condition of the syntax tree: `name` or `!name` over boolean condition variables.
CondHolds(expr) ==
    IF expr[1] = "!" THEN ~pParms.conditionVars[Tail(expr)].b ELSE pParms.conditionVars[expr].b

\* The branch of a chain that is kept: the first one whose condition holds, else the
\* $else branch when there is one, else 0.
TakenBranch(n) ==
    LET holds == {i \in 1 .. Len(n.branches) :
                     (n.hasElse /\ i = Len(n.branches)) \/ CondHolds(n.branches[i].expr)}
    IN  IF holds = {} THEN 0 ELSE Min(holds)

\* The last call before call i that names blockName (0 when there is none).
PrevCall(i, blockName) ==
    LET before == {j \in 1 .. i - 1 : calls[j].blockName = blockName}
    IN  IF before = {} THEN 0 ELSE CHOOSE j \in before : \A h \in before : h <= j

\* The text promised for the nodes within one instance of their block: the instance has
\* the variable values vals and contains the instances that the calls lo+1 .. hi-1 made.
RECURSIVE Promised(_, _, _, _)
RECURSIVE PromisedInstances(_, _, _, _)
Promised(nodes, lo, hi, vals) ==
    IF nodes = <<>> THEN <<>>
    ELSE LET n == Head(nodes)
             text == CASE n.k = "text"  -> n.s
                       [] n.k = "var"   -> vals[n.name]
                       [] n.k = "block" -> PromisedInstances(n, lo + 1, hi, <<>>)
                       [] OTHER         -> IF TakenBranch(n) = 0 THEN <<>>
                                           ELSE Promised(n.branches[TakenBranch(n)].body, lo, hi, vals)
         IN  text \o Promised(Tail(nodes), lo, hi, vals)

\* The instances of block node n that the calls i .. hi-1 made, in call order.
PromisedInstances(n, i, hi, acc) ==
    IF i >= hi THEN acc
    ELSE PromisedInstances(n, i + 1, hi,
            IF calls[i].blockName = n.name
            THEN acc \o Promised(n.body, PrevCall(i, n.name), i, calls[i].vals)
            ELSE acc)

\* The call that created the instance of the main block.
MainCall == CHOOSE i \in 1 .. Len(calls) : calls[i].blockName = NoName

\* The output promised for the template and the calls made.
PromisedOutput == Promised(scenario.ast, 0, MainCall, calls[MainCall].vals)

\* generateOutputString() has just returned a string.
Generated == pc = "session" /\ ret.kind = "out"

HasAst == scenario.ast # <<>>

\* The instance that call i created, when every call creates one instance.
InstOf(i) == i - 1

\* Every call recorded has created exactly one block instance (no block name is
\* defined twice in the template).
OneInstancePerCall == Len(calls) = Len(blockInstTab)

\* The number of times instance n was written.
Count(written, n) == Cardinality({q \in 1 .. Len(written) : written[q] = n})

\* ------------------------------------------------------------------------
\* C1: nested repetition isolation
\* ------------------------------------------------------------------------

\* The positions of ret.written that hold an instance made by a call of blockName.
WrittenOf(blockName) ==
    {q \in 1 .. Len(ret.written) : calls[ret.written[q] + 1].blockName = blockName}

\* The cell instances written inside the row instance written at position q: those
\* written after it and before the next row instance.
CellsWrittenIn(q) ==
    {q2 \in WrittenOf(nC) : q2 > q /\ ~\E q3 \in WrittenOf(nR) : q < q3 /\ q3 < q2}

\* The cell instances created between the row call before call i and call i.
CellsCreatedFor(i) ==
    {InstOf(j) : j \in {j \in PrevCall(i, nR) + 1 .. i - 1 : calls[j].blockName = nC}}

\* C1: with block cell nested in block row, the cell instances rendered inside the k-th
\* row instance are exactly those created after the (k-1)-th addBlock("row") and before
\* the k-th, in creation order; no cell leaks into another row, and the text is the one
\* promised for the calls.
C1_NestedIsolation ==
    (Generated /\ scenario.ast = AstRowCell) =>
        /\ OneInstancePerCall
        /\ \A q \in WrittenOf(nR) :
              /\ {ret.written[q2] : q2 \in CellsWrittenIn(q)} = CellsCreatedFor(ret.written[q] + 1)
              /\ \A q1, q2 \in CellsWrittenIn(q) : q1 < q2 => ret.written[q1] < ret.written[q2]
        /\ \A q2 \in WrittenOf(nC) : \E q \in WrittenOf(nR) : q2 \in CellsWrittenIn(q)
        /\ {ret.written[q] : q \in WrittenOf(nR)}
               = {InstOf(i) : i \in {i \in 1 .. MainCall - 1 : calls[i].blockName = nR}}
        /\ \A q1, q2 \in WrittenOf(nR) : q1 < q2 => ret.written[q1] < ret.written[q2]
        /\ \A q1, q2 \in 1 .. Len(ret.written) : ret.written[q1] = ret.written[q2] => q1 = q2
        /\ join(ret.out) = PromisedOutput

\* Two rows were rendered, each with the one cell added before it.
C1_Witness ==
    /\ Generated /\ scenario.ast = AstRowCell
    /\ \E q1, q2 \in WrittenOf(nR) :
          q1 < q2 /\ Cardinality(CellsWrittenIn(q1)) = 1 /\ Cardinality(CellsWrittenIn(q2)) = 1

\* ------------------------------------------------------------------------
\* C2: repetitions of a block directly under the main block
\* ------------------------------------------------------------------------

\* The text of the repetitions that the calls i .. hi-1 of addBlock("r") make of the body
\* "(${x})": one per call, in call order, with the value x had at the call.
RECURSIVE ListRepetitions(_, _)
ListRepetitions(i, hi) ==
    IF i >= hi THEN <<>>
    ELSE (IF calls[i].blockName = nR THEN <<"(">> \o calls[i].vals[vX] \o <<")">> ELSE <<>>)
         \o ListRepetitions(i + 1, hi)

\* The calls of addBlock("r") made before the first generateOutput.
ListCalls == {i \in 1 .. MainCall - 1 : calls[i].blockName = nR}

\* C2: N calls of addBlock(b) for a block b directly under the main block, made before
\* generateOutput, give exactly N repetitions of the body of b in the output, in call
\* order, the i-th with the variable values current at the i-th call.
C2_RepetitionsInCallOrder ==
    (Generated /\ scenario.ast = AstList) =>
        /\ join(ret.out) = <<"L">> \o ListRepetitions(1, MainCall) \o <<"M">>
        /\ Cardinality({p \in 1 .. Len(join(ret.out)) : join(ret.out)[p] = "("}) = Cardinality(ListCalls)

\* Three repetitions, the values differing from one call to the next.
C2_Witness ==
    /\ Generated /\ scenario.ast = AstList
    /\ Cardinality(ListCalls) = 3
    /\ \E i, j \in ListCalls : i < j /\ calls[i].vals[vX] = <<"V">> /\ calls[j].vals[vX] = <<>>

\* ------------------------------------------------------------------------
\* C3: an instance keeps the values its block's variables had when it was added
\* ------------------------------------------------------------------------

\* The variables that the nodes reference in their own block once the conditions are
\* resolved: those outside of nested blocks and of branches that are not kept.
RECURSIVE LocalVars(_)
LocalVars(nodes) ==
    IF nodes = <<>> THEN {}
    ELSE LET n == Head(nodes)
         IN  (CASE n.k = "var"  -> {n.name}
                [] n.k = "cond" -> IF TakenBranch(n) = 0 THEN {}
                                   ELSE LocalVars(n.branches[TakenBranch(n)].body)
                [] OTHER        -> {})
             \cup LocalVars(Tail(nodes))

\* The same for the body of the block blockName, wherever the nodes define it.
RECURSIVE LocalVarsOf(_, _)
LocalVarsOf(nodes, blockName) ==
    IF nodes = <<>> THEN {}
    ELSE LET n == Head(nodes)
         IN  (CASE n.k = "block" -> IF n.name = blockName THEN LocalVars(n.body)
                                    ELSE LocalVarsOf(n.body, blockName)
                [] n.k = "cond"  -> IF TakenBranch(n) = 0 THEN {}
                                    ELSE LocalVarsOf(n.branches[TakenBranch(n)].body, blockName)
                [] OTHER         -> {})
             \cup LocalVarsOf(Tail(nodes), blockName)

\* The variables local to the block that call i names.
CallVars(i) ==
    IF calls[i].blockName = NoName THEN LocalVars(scenario.ast)
    ELSE LocalVarsOf(scenario.ast, calls[i].blockName)

\* The variables of the block of instance n, in the order of its blockVarTab.
InstVarNames(n) ==
    LET map == At(template.blockTab, At(blockInstTab, n).blockNo).blockVarNoToVarNoMap
    IN  [k \in 1 .. Len(map) |-> At(template.varTab, map[k])]

\* C3: addBlock copies the current values of exactly the variables referenced in the
\* block into the new instance; later setVariable calls change no instance that exists,
\* and every instance renders with the values current at its addBlock call.
C3_Snapshot ==
    (pc = "session" /\ HasAst /\ OneInstancePerCall) =>
        /\ \A i \in 1 .. Len(calls) :
              LET names == InstVarNames(InstOf(i))
              IN  /\ {names[k] : k \in DOMAIN names} = CallVars(i)
                  /\ Len(At(blockInstTab, InstOf(i)).blockVarTab) = Len(names)
                  /\ \A k \in DOMAIN names :
                        At(blockInstTab, InstOf(i)).blockVarTab[k] = calls[i].vals[names[k]]
        /\ Generated => join(ret.out) = PromisedOutput

\* An instance was rendered with the value "V" after the variable was set to another
\* value.
C3_Witness ==
    /\ Generated /\ scenario.ast = AstList
    /\ \E i \in ListCalls : calls[i].vals[vX] = <<"V">> /\ given[vX] = <<>>
    /\ varValuesTab = <<<<>>>>

\* ------------------------------------------------------------------------
\* C4: every block instance is emitted once
\* ------------------------------------------------------------------------

\* The block in which the syntax tree defines each block (NoName: the main block).
RECURSIVE AstParents(_, _)
RECURSIVE AstBranchParents(_, _, _)
AstParents(nodes, parent) ==
    IF nodes = <<>> THEN {}
    ELSE LET n == Head(nodes)
         IN  (CASE n.k = "block" -> {<<n.name, parent>>} \cup AstParents(n.body, n.name)
                [] n.k = "cond"  -> AstBranchParents(n.branches, 1, parent)
                [] OTHER         -> {})
             \cup AstParents(Tail(nodes), parent)

AstBranchParents(branches, i, parent) ==
    IF i > Len(branches) THEN {}
    ELSE AstParents(branches[i].body, parent) \cup AstBranchParents(branches, i + 1, parent)

ParentName(blockName) ==
    (CHOOSE pr \in AstParents(scenario.ast, NoName) : pr[1] = blockName)[2]

\* The first call after call i that names blockName (0 when there is none).
NextCall(i, blockName) ==
    LET after == {j \in i + 1 .. Len(calls) : calls[j].blockName = blockName}
    IN  IF after = {} THEN 0 ELSE Min(after)

\* The instance of call i has a place in the output: it is the instance of the main
\* block, or an instance of its parent block was added after it and has a place.
RECURSIVE HasPlace(_)
HasPlace(i) ==
    IF calls[i].blockName = NoName THEN TRUE
    ELSE LET next == NextCall(i, ParentName(calls[i].blockName))
         IN  next # 0 /\ HasPlace(next)

\* C4 as stated: in one run of generateOutput every block instance in blockInstTab is
\* emitted exactly once, none skipped and none duplicated.
C4_EveryInstanceOnce ==
    Generated => \A n \in 0 .. Len(blockInstTab) - 1 : Count(ret.written, n) = 1

\* C4 amended: in one run of generateOutput no block instance is emitted twice, and
\* (in a template whose placeholders and commands do not overlap) an instance is
\* emitted exactly when it has a place: the main block's instance, and every instance
\* after which an instance of its parent block was added that has a place itself.
C4_InstancesWithPlaceOnce ==
    Generated =>
        /\ \A q \in 1 .. Len(ret.written) : ret.written[q] \in 0 .. Len(blockInstTab) - 1
        /\ \A n \in 0 .. Len(blockInstTab) - 1 : Count(ret.written, n) <= 1
        /\ (HasAst /\ OneInstancePerCall) =>
              \A i \in 1 .. Len(calls) : (Count(ret.written, InstOf(i)) = 1) <=> HasPlace(i)

\* A run that emitted a row with its cell and left out a cell added after the row.
C4_Witness ==
    /\ Generated /\ scenario.ast = AstRowCell
    /\ \E i, j, k \in 1 .. Len(calls) :
          /\ i < j /\ j < k
          /\ calls[i].blockName = nC /\ calls[j].blockName = nR /\ calls[k].blockName = nC
          /\ Count(ret.written, InstOf(i)) = 1 /\ Count(ret.written, InstOf(j)) = 1
          /\ Count(ret.written, InstOf(k)) = 0

\* ------------------------------------------------------------------------
\* C5: generateOutput does not throw
\* ------------------------------------------------------------------------

\* C5 as stated: for every template that parseTemplate accepts and every sequence of
\* calls, generateOutputArray and generateOutputString return without throwing; none of
\* the assertions of writeBlockInstances and writeBlockInstance fails.
C5_GenerateNeverThrows == pc = "session" => ret.err # "Assertion failed."

\* ------------------------------------------------------------------------
\* C6: setting a variable the template does not have
\* ------------------------------------------------------------------------

\* The variables of the template as its author wrote them.
KnownVars ==
    IF HasAst THEN AstVars(scenario.ast)
    ELSE {template.varTab[i] : i \in 1 .. Len(template.varTab)}

\* Nothing that generateOutput reads has changed.
EngineUnchanged == UNCHANGED <<template, varValuesTab, blockDynTab, blockInstTab>>

\* C6: setVariable and setVariableEsc with a name that is not a variable of the template
\* throw VariableNotDefinedError and leave all variable values and block instances
\* unchanged; setVariableOpt and setVariableOptEsc with such a name return normally and
\* leave the session state, and with it the output generated next, unchanged (the
\* output is a function of the template and the three tables).
C6_UnknownVariable ==
    [][\A varName \in Names \ KnownVars, varValue \in scenario.values :
          /\ (SetVariable(varName, varValue) \/ SetVariableEsc(varName, varValue)) =>
                /\ ret'.kind = "error" /\ ret'.err = "VariableNotDefinedError"
                /\ EngineUnchanged
          /\ (SetVariableOpt(varName, varValue) \/ SetVariableOptEsc(varName, varValue)) =>
                /\ ret'.kind = "void"
                /\ EngineUnchanged
      ]_vars

\* setVariable has thrown in a session that has a value set and an instance added.
C6_Witness ==
    /\ pc = "session" /\ ret.kind = "error" /\ ret.err = "VariableNotDefinedError"
    /\ blockInstTab # <<>>
    /\ \E i \in 1 .. Len(varValuesTab) : varValuesTab[i] # <<>>

\* ------------------------------------------------------------------------
\* C7: adding a block the template does not define
\* ------------------------------------------------------------------------

\* The blocks the template defines: those of the syntax tree outside of the branches that
\* are not kept.
RECURSIVE DefinedBlocks(_)
DefinedBlocks(nodes) ==
    IF nodes = <<>> THEN {}
    ELSE LET n == Head(nodes)
         IN  (CASE n.k = "block" -> {n.name} \cup DefinedBlocks(n.body)
                [] n.k = "cond"  -> IF TakenBranch(n) = 0 THEN {}
                                    ELSE DefinedBlocks(n.branches[TakenBranch(n)].body)
                [] OTHER         -> {})
             \cup DefinedBlocks(Tail(nodes))

KnownBlocks ==
    IF HasAst THEN DefinedBlocks(scenario.ast)
    ELSE {template.blockTab[i].blockName : i \in 2 .. Len(template.blockTab)}

\* C7: addBlock with a name for which no block is defined throws BlockNotDefinedError
\* and creates no instance and changes no counter and no chain pointer; addBlockOpt
\* with such a name returns normally and changes nothing.
C7_UnknownBlock ==
    [][\A blockName \in Names \ KnownBlocks :
          /\ AddBlock(blockName) =>
                /\ ret'.kind = "error" /\ ret'.err = "BlockNotDefinedError"
                /\ EngineUnchanged
          /\ AddBlockOpt(blockName) => (ret'.kind = "void" /\ EngineUnchanged)
      ]_vars

\* addBlock has thrown in a session that has instances.
C7_Witness ==
    /\ pc = "session" /\ ret.kind = "error" /\ ret.err = "BlockNotDefinedError"
    /\ Len(blockInstTab) >= 2

\* ------------------------------------------------------------------------
\* C8: one branch of a chain
\* ------------------------------------------------------------------------

ConditionVar(name) == pParms.conditionVars[name].b

\* C8: of the chain $if a / $elseIf b / $elseIf c / $else in enabled context, the output
\* has the text of one branch only: the first whose condition is true, or the $else
\* branch when none is; a later branch is left out even when its condition is true.
C8_FirstTrueBranchOnly ==
    (Generated /\ scenario.ast = AstChain) =>
        join(ret.out) = <<"S">>
                        \o (IF ConditionVar(<<"a">>) THEN <<"A">>
                            ELSE IF ConditionVar(<<"b">>) THEN <<"B">>
                            ELSE IF ConditionVar(<<"c">>) THEN <<"C">>
                            ELSE <<"D">>)
                        \o <<"E">>

\* a is false, b and c are true, and the output was generated.
C8_Witness ==
    /\ Generated /\ scenario.ast = AstChain
    /\ ~ConditionVar(<<"a">>) /\ ConditionVar(<<"b">>) /\ ConditionVar(<<"c">>)

\* ------------------------------------------------------------------------
\* C9: a variable of the main block
\* ------------------------------------------------------------------------

\* The text "R" once for every call of addBlock("r") among the calls i .. hi-1.
RECURSIVE Rs(_, _)
Rs(i, hi) ==
    IF i >= hi THEN <<>>
    ELSE (IF calls[i].blockName = nR THEN <<"R">> ELSE <<>>) \o Rs(i + 1, hi)

\* C9: in the template A${x}<r>R</r>${x}B the value last given for x before
\* generateOutput stands once in the place of each reference and the placeholder text
\* is not in the output; a variable never set, or set to null or undefined, gives the
\* empty string (given holds the empty text for all three).
C9_RootVariable ==
    (Generated /\ scenario.ast = AstRootVar) =>
        /\ join(ret.out) = <<"A">> \o calls[MainCall].vals[vX] \o Rs(1, MainCall)
                           \o calls[MainCall].vals[vX] \o <<"B">>
        /\ \A v \in {NullVal, UndefVal} :
              setVariable(Me, template, vX, v) = [m |-> [Me EXCEPT !.varValuesTab = <<<<>>>>], err |-> ""]

\* The output was generated with x set to "V".
C9_Witness ==
    /\ Generated /\ scenario.ast = AstRootVar
    /\ calls[MainCall].vals[vX] = <<"V">>
    /\ join(ret.out) = <<"A", "V", "V", "B">>

\* ------------------------------------------------------------------------
\* C10: a text without commands and placeholders renders to itself
\* ------------------------------------------------------------------------

\* The main template as its author wrote it.
MainText == pParms.files[MainName]

\* The positions at which sub occurs in text.
Occurs(text, sub) ==
    {p \in 0 .. Len(text) - Len(sub) : substring(text, p, p + Len(sub)) = sub}

\* The position of the first "-->" that can close the "<!--" at p (-1 when none does).
CommentEnd(text, p) == indexOf(text, <<"-", "-", ">">>, p + 4)

\* The first character that is not white space from p on ("" when there is none).
FirstNonBlank(text, p) ==
    LET rest == {q \in p .. Len(text) - 1 : At(text, q) \notin WhiteSpaceChars}
    IN  IF rest = {} THEN "" ELSE At(text, Min(rest))

\* The text has a placeholder: a "${".
HasPlaceholder(text) == Occurs(text, <<"$", "{">>) # {}

\* The text has a command in the long form: a comment <!-- ... --> that begins with "$".
HasLongCommand(text) ==
    \E p \in Occurs(text, <<"<", "!", "-", "-">>) :
        /\ CommentEnd(text, p) # -1
        /\ FirstNonBlank(substring(text, p + 4, CommentEnd(text, p)), 0) = "$"

\* The text has a command in the short form: <$ ... > that begins with ?, : or /.
HasShortCommand(text) ==
    /\ pParms.shortFormEnabled
    /\ \E p \in Occurs(text, <<"<", "$">>) :
          /\ indexOf(text, <<">">>, p + 2) # -1
          /\ FirstNonBlank(text, p + 2) \in {"?", ":", "/"}

PlainText(text) == ~HasPlaceholder(text) /\ ~HasLongCommand(text) /\ ~HasShortCommand(text)

\* Every "<!--" of the text has a "-->" after it.
CommentsClosed(text) ==
    \A p \in Occurs(text, <<"<", "!", "-", "-">>) : CommentEnd(text, p) # -1

\* C10 as stated: for every template text that contains no commands and no variable
\* placeholders, parseTemplate succeeds and generateOutputString without any set/add
\* call returns exactly the template text.
C10_Identity ==
    PlainText(MainText) => (pc # "failed" /\ (Generated => join(ret.out) = MainText))

\* C10 amended: for every template text that contains no commands and no variable
\* placeholders and in which every "<!--" is closed by a later "-->", parseTemplate
\* succeeds and generateOutputString without any set/add call returns exactly the
\* template text.
C10_IdentityClosedComments ==
    (PlainText(MainText) /\ CommentsClosed(MainText)) =>
        (pc # "failed" /\ (Generated => join(ret.out) = MainText))

\* A text with a comment that is no command was rendered.
C10_Witness ==
    /\ Generated
    /\ PlainText(MainText) /\ CommentsClosed(MainText)
    /\ Occurs(MainText, <<"<", "!", "-", "-">>) # {}
    /\ join(ret.out) = MainText

\* ------------------------------------------------------------------------
\* C11: $include
\* ------------------------------------------------------------------------

\* The main template with the text of every inclusion in enabled context written in
\* place of the command: the inclusion of t lies in the branch of a.
InlineText ==
    IF ConditionVar(<<"a">>) THEN Unparse(AstInclude)
    ELSE <<"I">> \o IncludeFiles[SubName] \o <<"J">>

\* The parameters of the parser for the template written as that one text.
WrittenInline ==
    [pParms EXCEPT !.files = (MainName :> InlineText)]

\* C11: the text loaded by $include in enabled context replaces the command and is
\* scanned from its first character: parsing I<include s>J gives the ParsedTemplate that
\* the text with s (and t in it) written in place gives, no command or placeholder of
\* the sub-templates is literal text, and the output is the one promised for that text.
C11_IncludeAsWrittenInline ==
    (scenario.ast = AstInclude /\ pParms.files = IncludeFiles) =>
        /\ pc # "failed"
        /\ pc \in {"parsed", "session"} =>
              /\ template.templateText = InlineText
              /\ template = parsedTemplate(parseTemplate(WrittenInline))
        /\ Generated => join(ret.out) = PromisedOutput

\* With a true, the block of the sub-template was rendered with the value of the
\* variable of the sub-template included in it.
C11_Witness ==
    /\ Generated /\ scenario.ast = AstInclude /\ pParms.files = IncludeFiles
    /\ join(ret.out) = <<"I", "(", "V", ")", "J">>

\* ------------------------------------------------------------------------
\* C12: one parsed template for each set of condition variable values
\* ------------------------------------------------------------------------

\* The calls of get that returned a MiniTemplator.
Returned == {i \in 1 .. Len(cache.gets) : cache.gets[i].state = "returned"}

\* The ParsedTemplate that parsing for the arguments of the i-th call of get gives.
OwnArtifact(i) ==
    parsedTemplate(parseTemplate(cacheParserParms(cache.gets[i].templateName,
                                                  cache.gets[i].conditionVars)))

\* C12 as stated: two calls of get for the same template name with condition variable
\* sets that differ in the value of a or b, which the $if and the $elseIf of the
\* template use, return sessions on different ParsedTemplate objects, each parsed with
\* the condition values of its own call.
C12_ArtifactPerConditionVars ==
    cache # NoCache =>
        \A i, j \in Returned :
            (/\ cache.gets[i].templateName = cache.gets[j].templateName
             /\ cache.gets[i].conditionVars.present /\ cache.gets[j].conditionVars.present
             /\ cache.gets[i].conditionVars.vars # cache.gets[j].conditionVars.vars)
            => /\ cache.gets[i].template # cache.gets[j].template
               /\ cache.artifacts[cache.gets[i].template] = OwnArtifact(i)

\* ------------------------------------------------------------------------
\* C13: one load for each cache key
\* ------------------------------------------------------------------------

\* C13 as stated: between two calls of clear() parseTemplate, and with it the loader,
\* is called at most once for every cache key, also while calls of get for the key
\* await their template.
C13_ParsedOncePerKey ==
    cache # NoCache => \A cacheKey \in DOMAIN cache.loads : cache.loads[cacheKey] <= 1

\* ------------------------------------------------------------------------
\* C14: a cached key is not parsed again, a cleared one is
\* ------------------------------------------------------------------------

\* The step is a call of get.
GetCalled == cache # NoCache /\ Len(cache'.gets) = Len(cache.gets) + 1

\* The two halves of C14 for a step that calls get with the key cacheKey, the call
\* being the last of gets'.
ReusesArtifact(cacheKey) ==
    /\ cache'.loads = cache.loads
    /\ cache'.artifacts = cache.artifacts
    /\ cache'.gets[Len(cache'.gets)].state = "returned"
    /\ \E j \in Returned : /\ cache.gets[j].cacheKey = cacheKey
                            /\ cache.gets[j].template = cache'.gets[Len(cache'.gets)].template

ParsesAgain(cacheKey) ==
    /\ Loads(cache'.loads, cacheKey) = Loads(cache.loads, cacheKey) + 1
    /\ cache'.gets[Len(cache'.gets)].state = "awaiting"

\* C14 as stated: a call of get whose key is the key of a call of get that parsed and
\* returned (since the last clear()) calls neither the loader nor the parser and
\* returns a new session on the ParsedTemplate object an earlier call returned; the
\* first call of get for a key after clear() calls parseTemplate again.
C14_HitReusesClearForgets ==
    [][GetCalled =>
          /\ cache'.gets[Len(cache'.gets)].cacheKey \in cache.done
                => ReusesArtifact(cache'.gets[Len(cache'.gets)].cacheKey)
          /\ cache'.gets[Len(cache'.gets)].cacheKey \notin cache.asked
                => ParsesAgain(cache'.gets[Len(cache'.gets)].cacheKey)]_vars

\* ------------------------------------------------------------------------
\* C15: sessions on one ParsedTemplate
\* ------------------------------------------------------------------------

\* An object on the ParsedTemplate t after the calls log[i], log[i+1], ... on o alone.
RECURSIVE Alone(_, _, _, _)
Alone(o, t, log, i) ==
    IF i > Len(log) THEN o ELSE Alone(callMethod(o, t, log[i]), t, log, i + 1)

RECURSIVE LastReset(_, _)
LastReset(log, i) ==
    IF i = 0 THEN 0
    ELSE IF log[i] = ResetCall THEN i
    ELSE LastReset(log, i - 1)

\* The object has no variable value, no instance of any block and no block instance.
Cleared(o) ==
    /\ Len(o.m.varValuesTab) = Len(template.varTab)
    /\ \A i \in 1 .. Len(o.m.varValuesTab) : o.m.varValuesTab[i] = <<>>
    /\ Len(o.m.blockDynTab) = Len(template.blockTab)
    /\ \A i \in 1 .. Len(o.m.blockDynTab) :
          /\ o.m.blockDynTab[i].instances = 0
          /\ o.m.blockDynTab[i].firstBlockInstNo = -1
          /\ o.m.blockDynTab[i].lastBlockInstNo = -1
    /\ o.m.blockInstTab = <<>>

\* What a new object on the template is after the calls of the log behind position k.
AfterOnNew(log, k) == Alone(newMiniTemplator(template), template, log, k + 1)

\* C16: right after reset(), whatever was called before, every variable value is the
\* empty string, every block has zero instances and blockInstTab is empty; and after
\* the calls that follow a reset() the object has the fields, and its
\* generateOutputString has returned the output, that a new object on the same
\* template has after the same calls.
C16_ResetIsFresh ==
    pc = "sessions" =>
        \A s \in 1 .. 2 :
            LET log == sessions[s].log
                k == LastReset(log, Len(log))
            IN  k > 0 =>
                  /\ k = Len(log) => Cleared(sessions[s])
                  /\ sessions[s].m = AfterOnNew(log, k).m
                  /\ sessions[s].err = AfterOnNew(log, k).err
                  /\ (\E i \in k + 1 .. Len(log) : log[i] = GenerateCall)
                        => sessions[s].out = AfterOnNew(log, k).out

\* A value was set before reset(), a repetition was added after it: the output has
\* the repetition without the value.
C16_Witness ==
    /\ pc = "sessions"
    /\ sessions[1].log = <<SetCall(vX, StrVal(<<"V">>)), ResetCall, AddCall(nR), GenerateCall>>
    /\ sessions[1].out = <<"L", "(", ")", "M">>

\* ------------------------------------------------------------------------
\* C17: the failures of the parser are TemplateSyntaxErrors
\* ------------------------------------------------------------------------

\* C17 as stated: when parseTemplate is rejected for a failure that the parser detects
\* (every failure but the loader's), it is rejected with a TemplateSyntaxError, and
\* there is no ParsedTemplate.
C17_SyntaxErrorOnly ==
    (pc = "failed" /\ parser.errorClass # "LoaderError") =>
        /\ parser.errorClass = SyntaxError
        /\ template = NoTemplate

\* ------------------------------------------------------------------------
\* C18: parseTemplate terminates
\* ------------------------------------------------------------------------

\* C18 as stated: with a loader that has a finite text for every name, the promise of
\* parseTemplate is settled at last, fulfilled or rejected, also for templates that
\* include themselves.
C18_ParseTemplateSettles == <>(pc \in {"parsed", "failed"})

\* ------------------------------------------------------------------------
\* C19: blocks of the same name
\* ------------------------------------------------------------------------

\* The block numbers of the definitions called blockName; the parser numbers the
\* definitions in the order of their $beginBlock commands in the template.
DefinitionsOf(blockName) ==
    {i - 1 : i \in {j \in 2 .. Len(template.blockTab) : template.blockTab[j].blockName = blockName}}

RECURSIVE EarliestFirst(_)
EarliestFirst(blockNos) ==
    IF blockNos = {} THEN <<>>
    ELSE LET first == CHOOSE b \in blockNos : \A c \in blockNos : b <= c
         IN  <<first>> \o EarliestFirst(blockNos \ {first})

RECURSIVE LatestFirst(_)
LatestFirst(blockNos) ==
    IF blockNos = {} THEN <<>>
    ELSE LET last == CHOOSE b \in blockNos : \A c \in blockNos : b >= c
         IN  <<last>> \o LatestFirst(blockNos \ {last})

\* The blocks of the instances that a step has appended to the instance list.
AppendedBlockNos ==
    [i \in 1 .. Len(blockInstTab') - Len(blockInstTab) |-> blockInstTab'[Len(blockInstTab) + i].blockNo]

\* The instances that were there are still there, in their places.
InstancesKept ==
    /\ Len(blockInstTab') >= Len(blockInstTab)
    /\ \A i \in 1 .. Len(blockInstTab) :
          /\ blockInstTab'[i].blockNo = blockInstTab[i].blockNo
          /\ blockInstTab'[i].instanceLevel = blockInstTab[i].instanceLevel

\* C19 as stated: one call of addBlock(name) for a name that several block definitions
\* share appends exactly one instance for each of the definitions to the instance list,
\* the instance of the earliest definition first, in the order of the definitions in
\* the template.
C19_EarliestDefinitionFirst ==
    [][\A blockName \in Names :
          (blockExists(template, blockName) /\ AddBlock(blockName)) =>
              /\ InstancesKept
              /\ AppendedBlockNos = EarliestFirst(DefinitionsOf(blockName))
      ]_vars

\* C19 amended: one call of addBlock(name) for a name that several block definitions
\* share appends exactly one instance for each of the definitions to the instance list,
\* the instance of the latest definition first, in the reverse of the order of the
\* definitions in the template.
C19_LatestDefinitionFirst ==
    [][\A blockName \in Names :
          (blockExists(template, blockName) /\ AddBlock(blockName)) =>
              /\ InstancesKept
              /\ AppendedBlockNos = LatestFirst(DefinitionsOf(blockName))
      ]_vars

\* addBlock("r") was called twice on the template with two blocks called r: each call
\* has appended an instance of the second definition, then one of the first.
C19_Witness ==
    /\ pc = "session" /\ scenario.ast = AstSameName /\ ret.kind = "void"
    /\ Cardinality(DefinitionsOf(nR)) = 2
    /\ [i \in 1 .. Len(blockInstTab) |-> blockInstTab[i].blockNo] = <<2, 1, 2, 1>>

\* ------------------------------------------------------------------------
\* C20: a block defined in a disabled branch only
\* ------------------------------------------------------------------------

\* A branch whose block commands could not be processed in enabled context: an
\* $endBlock for a block not begun, then a $beginBlock that is never ended.
TextDisabledCommands ==
    <<"S">> \o Cmd(ifCmd, <<"a">>) \o Cmd(endBlockCmd, nC) \o Cmd(beginBlockCmd, nC) \o <<"C">>
        \o Cmd(endIfCmd, <<>>) \o <<"E">>

InputsDisabled ==
    {InputOfAst(AstCondBlock, cv, PlainValues) : cv \in BoolVars({<<"a">>, <<"b">>})}
    \cup {[InputOfText(TextDisabledCommands, FALSE, {NullVal}) EXCEPT !.conditionVars = cv] :
              cv \in BoolVars({<<"a">>})}

InitDisabled == \E input \in InputsDisabled : InitOf(input)

NextDisabled ==
    \/ Next
    \/ \E blockName \in {nR, nC} : BlockExists(blockName)
    \/ AddBlock(nC)
    \/ AddBlockOpt(nC)

SpecDisabled == InitDisabled /\ [][NextDisabled]_vars

\* The names of the blocks whose $beginBlock commands all lie in branches that are
\* not kept.
DisabledOnly ==
    IF HasAst THEN AstBlocks(scenario.ast) \ DefinedBlocks(scenario.ast)
    ELSE IF pParms.files[MainName] = TextDisabledCommands /\ ~CondHolds(<<"a">>) THEN {nC}
    ELSE {}

\* C20: for a block whose $beginBlock commands all lie in disabled branches, the
\* $beginBlock and $endBlock commands in these branches make no step of the parser
\* fail, blockExists(name) returns false, addBlock(name) throws BlockNotDefinedError
\* and changes nothing, and addBlockOpt(name) returns normally and changes nothing.
C20_DisabledBlockNotRegistered ==
    [][\A blockName \in DisabledOnly :
          /\ pc' # "failed"
          /\ pc' = "session" => blockName \notin DOMAIN template'.blockNameToNoMap
          /\ BlockExists(blockName) => ret' = BoolRet(FALSE)
          /\ AddBlock(blockName) =>
                /\ ret'.kind = "error" /\ ret'.err = "BlockNotDefinedError"
                /\ EngineUnchanged
          /\ AddBlockOpt(blockName) => (ret'.kind = "void" /\ EngineUnchanged)
      ]_vars

\* On the template with block c in the branch of !b, b being true, a session that
\* has an instance of block r was asked blockExists("c") and the answer was false.
C20_Witness ==
    /\ pc = "session" /\ scenario.ast = AstCondBlock /\ nC \in DisabledOnly
    /\ pParms.conditionVars[<<"b">>].b
    /\ ret = BoolRet(FALSE)
    /\ Len(blockInstTab) >= 1

\* ------------------------------------------------------------------------
\* C21: the short form of the conditional commands
\* ------------------------------------------------------------------------

\* The text of a short form command: <$? expr>, <$: expr>, <$:>, <$/?>
ShortCmd(cmd, expr) ==
    cmdStartStrShort \o cmd \o (IF expr = <<>> THEN <<>> ELSE <<" ">> \o expr) \o cmdEndStrShort

RECURSIVE UnparseShort(_)
RECURSIVE UnparseShortBranches(_, _, _)

\* The template text of a sequence of nodes, the conditional commands in short form.
UnparseShort(nodes) ==
    IF nodes = <<>> THEN <<>>
    ELSE LET n == Head(nodes)
             text == CASE n.k = "text"  -> n.s
                       [] n.k = "var"   -> Placeholder(n.name)
                       [] n.k = "block" -> Cmd(beginBlockCmd, n.name) \o UnparseShort(n.body)
                                              \o Cmd(endBlockCmd, n.name)
                       [] OTHER         -> UnparseShortBranches(n.branches, 1, n.hasElse)
                                              \o ShortCmd(<<"/", "?">>, <<>>)
         IN  text \o UnparseShort(Tail(nodes))

UnparseShortBranches(branches, i, hasElse) ==
    IF i > Len(branches) THEN <<>>
    ELSE (IF i = 1 THEN ShortCmd(<<"?">>, branches[i].expr)
          ELSE IF hasElse /\ i = Len(branches) THEN ShortCmd(<<":">>, <<>>)
          ELSE ShortCmd(<<":">>, branches[i].expr))
         \o UnparseShort(branches[i].body) \o UnparseShortBranches(branches, i + 1, hasElse)

\* Condition expressions over the condition variables a and b.
NameExprs == {<<"a">>, <<"!", "a">>, <<"b">>, <<"!", "b">>}

CondExprs == NameExprs \cup {<<"a", ">", "b">>}

\* $if e1 / $elseIf e2 / $else / $endIf between two texts.
AstIfElseIf(e1, e2) ==
    << TextNode(<<"S">>),
       CondNode(<< Branch(e1, << TextNode(<<"A">>) >>),
                   Branch(e2, << TextNode(<<"B">>) >>),
                   Branch(<<>>, << TextNode(<<"D">>) >>) >>, TRUE),
       TextNode(<<"E">>) >>

\* $if e1 with an $if e2 in it.
AstIfInIf(e1, e2) ==
    << CondNode(<< Branch(e1, << TextNode(<<"A">>),
                                 CondNode(<< Branch(e2, << TextNode(<<"B">>) >>) >>, FALSE),
                                 TextNode(<<"C">>) >>) >>, FALSE),
       TextNode(<<"E">>) >>

AstsShort ==
    {AstIfElseIf(e1, e2) : e1, e2 \in CondExprs} \cup {AstIfInIf(e1, e2) : e1, e2 \in CondExprs}

\* The templates are written in short form and parsed with shortFormEnabled.
InputsShort ==
    {[InputOfAst(tree, cv, {NullVal}) EXCEPT
         !.files = (MainName :> UnparseShort(tree)), !.shortFormEnabled = TRUE] :
        tree \in AstsShort, cv \in BoolVars({<<"a">>, <<"b">>})}

InitShort == \E input \in InputsShort : InitOf(input)

SpecShort == InitShort /\ [][NextText]_vars

\* The same template written with $if, $elseIf, $else and $endIf, parsed with the same
\* condition variables, and what a new MiniTemplator renders of it.
VerboseParsed == parseTemplate([pParms EXCEPT !.files = (MainName :> Unparse(scenario.ast))])

VerboseOutput ==
    LET t == parsedTemplate(VerboseParsed)
    IN  join(generateOutputArray(reset(NoEngine, t), t).out)

\* C21 as stated: with shortFormEnabled, for every condition expression, the template
\* written with <$? expr>, <$: expr>, <$:> and <$/?> is accepted by the parser exactly
\* when the template written with $if expr, $elseIf expr, $else and $endIf is, and
\* renders the same output for the same condition variables.
C21_ShortFormAsVerbose ==
    /\ pc = "failed" => Failed(VerboseParsed)
    /\ pc = "parsed" => ~Failed(VerboseParsed)
    /\ Generated => join(ret.out) = VerboseOutput

\* ------------------------------------------------------------------------
\* C22: the instance of the main block
\* ------------------------------------------------------------------------

\* The last call of the session was generateOutput: it returned its output or its
\* assertion failed.
LastWasGenerate ==
    ret.kind = "out" \/ (ret.kind = "error" /\ ret.err = "Assertion failed.")

\* C22: after a call of generateOutput the main block has exactly one instance, however
\* many calls of generateOutput were made since construction or the last reset, and a
\* call of generateOutput that follows a call of generateOutput returns what that one
\* returned.
C22_OneMainInstance ==
    [][(ret'.kind \in {"out", "error"} /\ GenerateOutput) =>
          /\ blockDynTab'[1].instances = 1
          /\ Cardinality({i \in 1 .. Len(blockInstTab') : blockInstTab'[i].blockNo = 0}) = 1
          /\ LastWasGenerate => (ret' = ret /\ blockInstTab' = blockInstTab)
      ]_vars

\* generateOutput has returned for the second time at least: instances of block r
\* were added after the call that added the instance of the main block.
C22_Witness ==
    /\ Generated /\ scenario.ast = AstList
    /\ MainCall < Len(calls)
    /\ blockDynTab[1].instances = 1
    /\ join(ret.out) = <<"L", "(", ")", "(", "V", ")", "M">>

\* ------------------------------------------------------------------------
\* C23: block commands that do not pair
\* ------------------------------------------------------------------------

\* A $beginBlock or $endBlock command in enabled context, and an $endBlock command in a
\* branch that is not kept.
BeginNode(name) == [TextNode(<<>>) EXCEPT !.k = "begin", !.name = name]
EndNode(name) == [TextNode(<<>>) EXCEPT !.k = "end", !.name = name]
DisabledEndNode(name) == [TextNode(<<>>) EXCEPT !.k = "disabledEnd", !.name = name]

BlockCommandNodes == {BeginNode(nR), BeginNode(nC), EndNode(nR), EndNode(nC), DisabledEndNode(nR)}

MaxBlockCommands == 4

RECURSIVE CommandLists(_)
CommandLists(k) ==
    IF k = 0 THEN {<<>>}
    ELSE LET shorter == CommandLists(k - 1)
         IN  shorter \cup {Append(cmds, n) : cmds \in shorter, n \in BlockCommandNodes}

RECURSIVE UnparseCommands(_)
UnparseCommands(cmds) ==
    IF cmds = <<>> THEN <<>>
    ELSE LET n == Head(cmds)
             text == CASE n.k = "begin" -> Cmd(beginBlockCmd, n.name)
                       [] n.k = "end"   -> Cmd(endBlockCmd, n.name)
                       [] OTHER         -> Cmd(ifCmd, <<"!", "a">>) \o Cmd(endBlockCmd, n.name)
                                              \o Cmd(endIfCmd, <<>>)
         IN  text \o <<"T">> \o UnparseCommands(Tail(cmds))

InputsBlockCommands ==
    {[ast |-> cmds,
      files |-> (MainName :> UnparseCommands(cmds)),
      conditionVars |-> (nA :> BoolVal(TRUE)),
      shortFormEnabled |-> FALSE,
      values |-> {NullVal}] : cmds \in CommandLists(MaxBlockCommands)}

InitBlockCommands == \E input \in InputsBlockCommands : InitOf(input)

SpecBlockCommands == InitBlockCommands /\ [][NextSyntax]_vars

\* Whether the commands, read from the first on with the names of the open blocks
\* (the innermost first), have one of the faults: a $beginBlock that names a block
\* still open, an $endBlock that names a block other than the innermost open one (one
\* never begun or already closed when no block of the name is open), a block left
\* open at the end.
RECURSIVE HasBlockFault(_, _)
HasBlockFault(cmds, open) ==
    IF cmds = <<>> THEN open # <<>>
    ELSE LET n == Head(cmds)
         IN  CASE n.k = "begin" -> \/ \E i \in 1 .. Len(open) : open[i] = n.name
                                   \/ HasBlockFault(Tail(cmds), <<n.name>> \o open)
               [] n.k = "end"   -> \/ open = <<>>
                                   \/ Head(open) # n.name
                                   \/ HasBlockFault(Tail(cmds), Tail(open))
               [] OTHER         -> HasBlockFault(Tail(cmds), open)

\* C23: a template in which, in enabled context, a $beginBlock names a block that is
\* still open, an $endBlock names a block other than the innermost open one, one never
\* begun or one already closed, or a begun block is never closed, is never parsed with
\* success: parseTemplate fails with a TemplateSyntaxError.
C23_UnpairedBlockCommandsFail ==
    HasBlockFault(scenario.ast, <<>>) =>
        /\ pc # "parsed"
        /\ pc = "failed" => parser.errorClass = SyntaxError

\* Parsing has failed at the end of the template <r><r></r>, the first block r never
\* closed because the second $beginBlock took its name.
C23_Witness ==
    /\ pc = "failed"
    /\ scenario.ast = <<BeginNode(nR), BeginNode(nR), EndNode(nR)>>
    /\ parser.error = "Missing $endBlock command in template for block."

\* ------------------------------------------------------------------------
\* C24: conditional commands that do not pair
\* ------------------------------------------------------------------------

\* A conditional command; s is its condition expression.
IfNode(expr) == [TextNode(expr) EXCEPT !.k = "if"]
ElseIfNode(expr) == [TextNode(expr) EXCEPT !.k = "elseIf"]
ElseNode == [TextNode(<<>>) EXCEPT !.k = "else"]
EndIfNode == [TextNode(<<>>) EXCEPT !.k = "endIf"]

CondCommandNodes == {IfNode(<<"a">>), IfNode(<<"!", "a">>), ElseIfNode(<<"a">>), ElseNode, EndIfNode}

MaxCondCommands == 4

RECURSIVE CondCommandLists(_)
CondCommandLists(k) ==
    IF k = 0 THEN {<<>>}
    ELSE LET shorter == CondCommandLists(k - 1)
         IN  shorter \cup {Append(cmds, n) : cmds \in shorter, n \in CondCommandNodes}

\* The text of a conditional command, in short form or in long form.
CondCommandText(n, short) ==
    CASE n.k = "if"     -> IF short THEN ShortCmd(<<"?">>, n.s) ELSE Cmd(ifCmd, n.s)
      [] n.k = "elseIf" -> IF short THEN ShortCmd(<<":">>, n.s) ELSE Cmd(elseIfCmd, n.s)
      [] n.k = "else"   -> IF short THEN ShortCmd(<<":">>, <<>>) ELSE Cmd(elseCmd, <<>>)
      [] OTHER          -> IF short THEN ShortCmd(<<"/", "?">>, <<>>) ELSE Cmd(endIfCmd, <<>>)

\* The template 0 c1 1 c2 2 ...: behind the i-th command comes the digit i.
RECURSIVE UnparseCondCommands(_, _, _)
UnparseCondCommands(cmds, i, short) ==
    IF i > Len(cmds) THEN <<>>
    ELSE CondCommandText(cmds[i], short) \o <<Digits[i + 1]>> \o UnparseCondCommands(cmds, i + 1, short)

InputsCondCommands ==
    {[ast |-> cmds,
      files |-> (MainName :> <<"0">> \o UnparseCondCommands(cmds, 1, short)),
      conditionVars |-> (nA :> BoolVal(TRUE)),
      shortFormEnabled |-> short,
      values |-> {NullVal}] : cmds \in CondCommandLists(MaxCondCommands), short \in BOOLEAN}

InitCondCommands == \E input \in InputsCondCommands : InitOf(input)

SpecCondCommands == InitCondCommands /\ [][NextText]_vars

\* Whether the commands from the i-th on, read with the number of $if commands that
\* are open, have one of the faults: an $elseIf, $else or $endIf while no $if is open,
\* an $if still open at the end.
RECURSIVE HasCondFault(_, _, _)
HasCondFault(cmds, i, open) ==
    IF i > Len(cmds) THEN open > 0
    ELSE IF cmds[i].k = "if" THEN HasCondFault(cmds, i + 1, open + 1)
    ELSE IF open = 0 THEN TRUE
    ELSE HasCondFault(cmds, i + 1, IF cmds[i].k = "endIf" THEN open - 1 ELSE open)

\* The levels of the open $if commands, the innermost first; below them the level of the
\* text outside of all conditionals.
OutsideLevel == [enabled |-> TRUE, passed |-> TRUE]

LevelsAfter(n, levels) ==
    LET holds == n.k = "else" \/ n.s = <<"a">>
        opened == levels[1].enabled /\ holds
        next == levels[2].enabled /\ ~levels[1].passed /\ holds
    IN  CASE n.k = "if"    -> <<[enabled |-> opened, passed |-> opened]>> \o levels
          [] n.k = "endIf" -> Tail(levels)
          [] OTHER         -> <<[enabled |-> next, passed |-> levels[1].passed \/ next]>> \o Tail(levels)

\* The digits that are rendered when every $endIf closes the $if opened last and not
\* yet closed, commands in branches that are not kept counted as well.
RECURSIVE KeptDigits(_, _, _)
KeptDigits(cmds, i, levels) ==
    IF i > Len(cmds) THEN <<>>
    ELSE (IF LevelsAfter(cmds[i], levels)[1].enabled THEN <<Digits[i + 1]>> ELSE <<>>)
         \o KeptDigits(cmds, i + 1, LevelsAfter(cmds[i], levels))

\* C24: parsing fails with a TemplateSyntaxError when an $elseIf, $else or $endIf, in
\* long or short form, comes while no $if is open, and when an $if is still open at
\* the end of the template; the conditional commands in branches that are not kept
\* are counted, each $endIf closing the $if opened last and not yet closed: a template
\* without these faults is parsed and renders the text of the branches kept.
C24_UnpairedConditionalsFail ==
    IF HasCondFault(scenario.ast, 1, 0)
    THEN /\ pc \notin {"parsed", "session"}
         /\ pc = "failed" => parser.errorClass = SyntaxError
    ELSE /\ pc # "failed"
         /\ Generated => join(ret.out) = <<"0">> \o KeptDigits(scenario.ast, 1, <<OutsideLevel>>)

\* The template 0<if !a>1<if a>2<endIf>3<endIf>4 has rendered 04: the first $endIf
\* has closed the $if a in the branch not kept.
C24_Witness ==
    /\ Generated
    /\ scenario.ast = <<IfNode(<<"!", "a">>), IfNode(<<"a">>), EndIfNode, EndIfNode>>
    /\ join(ret.out) = <<"0", "4">>

\* ------------------------------------------------------------------------
\* C25: the depth of block nesting
\* ------------------------------------------------------------------------

\* The name of the i-th of the nested blocks.
NestedName(i) == <<"n">> \o NatToString(i)

\* n blocks, each in the one before: <n1><n2>...</n2></n1>
NestedBlocks(n) ==
    [i \in 1 .. 2 * n |-> IF i <= n THEN BeginNode(NestedName(i)) ELSE EndNode(NestedName(2 * n + 1 - i))]

\* The depths around the greatest one that the parser accepts.
NestingDepths == {1, 2} \cup (maxNestingLevel - 3 .. maxNestingLevel + 1)

InputsNesting ==
    {[ast |-> NestedBlocks(n),
      files |-> (MainName :> UnparseCommands(NestedBlocks(n))),
      conditionVars |-> (nA :> BoolVal(TRUE)),
      shortFormEnabled |-> FALSE,
      values |-> {NullVal}] : n \in NestingDepths}

InitNesting == \E input \in InputsNesting : InitOf(input)

SpecNesting == InitNesting /\ [][NextSyntax]_vars

\* A step of the parser that has registered a block for a $beginBlock command.
BlockBegun ==
    /\ pc = "commands"
    /\ Len(parser'.blockTab) = Len(parser.blockTab) + 1
    /\ ~parser'.blockTab[Len(parser'.blockTab)].dummy

\* C25: a $beginBlock in enabled context succeeds when fewer than 30 blocks are open,
\* the main block counted, and fails with the block nesting overflow error when 30
\* are open; while the parser runs the nesting level, with which it indexes the 31
\* cells of openBlocksTab, is in 0 .. 30.
C25_NestingBounded ==
    /\ [](pc \in {"commands", "parsed"} =>
            /\ parser.currentNestingLevel \in 0 .. maxNestingLevel
            /\ DOMAIN parser.openBlocksTab = 0 .. 30)
    /\ [][BlockBegun =>
            IF parser.currentNestingLevel < 30
            THEN ~Failed(parser') /\ parser'.currentNestingLevel = parser.currentNestingLevel + 1
            ELSE /\ pc' = "failed" /\ parser'.errorClass = SyntaxError
                 /\ parser'.error = "Block nesting overflow."
         ]_vars

\* The template with 29 blocks nested in each other is parsed: with the main block 30
\* blocks were open.
C25_Witness ==
    /\ pc = "parsed"
    /\ scenario.ast = NestedBlocks(maxNestingLevel - 1)
    /\ Len(template.blockTab) = 30
    /\ \E i \in 1 .. Len(template.blockTab) : template.blockTab[i].nestingLevel = 29

\* ------------------------------------------------------------------------
\* C26: the depth of conditional nesting
\* ------------------------------------------------------------------------

\* n $if commands, each in the branch of the one before, and their $endIf commands.
NestedIfs(n, expr) == [i \in 1 .. 2 * n |-> IF i <= n THEN IfNode(expr) ELSE EndIfNode]

RECURSIVE UnparseNestedIfs(_, _)
UnparseNestedIfs(cmds, short) ==
    IF cmds = <<>> THEN <<>>
    ELSE CondCommandText(Head(cmds), short) \o UnparseNestedIfs(Tail(cmds), short)

\* The depths around the greatest one that the parser accepts.
CondDepths == {1, 2} \cup (maxCondLevels - 2 .. maxCondLevels + 1)

InputsCondNesting ==
    {[ast |-> NestedIfs(n, expr),
      files |-> (MainName :> UnparseNestedIfs(NestedIfs(n, expr), short)),
      conditionVars |-> (nA :> BoolVal(TRUE)),
      shortFormEnabled |-> short,
      values |-> {NullVal}] : n \in CondDepths, expr \in {<<"a">>, <<"!", "a">>}, short \in BOOLEAN}

InitCondNesting == \E input \in InputsCondNesting : InitOf(input)

SpecCondNesting == InitCondNesting /\ [][NextSyntax]_vars

\* The text with which the $if commands of these templates begin.
IfCommandStart == IF pParms.shortFormEnabled THEN <<"<", "$", "?">> ELSE cmdStartStr \o <<" ">> \o ifCmd

\* A step of the parser that processes an $if command.
IfMet ==
    /\ pc = "commands"
    /\ pc' \in {"commands", "failed"}
    /\ startsWith(substringFrom(parser.templateText, parser.p), IfCommandStart)

\* C26: an $if that opens a level up to the 30th is accepted, an $if met while 30
\* levels are open fails with the error 'Too many nested $if commands'; while the
\* parser runs condLevel is in -1 .. 29, within the 30 cells of condEnabled and
\* condPassed.
C26_CondNestingBounded ==
    /\ [](pc \in {"commands", "parsed"} =>
            /\ parser.condLevel \in -1 .. 29
            /\ DOMAIN parser.condEnabled = 0 .. 29
            /\ DOMAIN parser.condPassed = 0 .. 29)
    /\ [][IfMet =>
            IF parser.condLevel < 29
            THEN ~Failed(parser') /\ parser'.condLevel = parser.condLevel + 1
            ELSE /\ pc' = "failed" /\ parser'.errorClass = SyntaxError
                 /\ parser'.error = "Too many nested $if commands."
         ]_vars

\* Thirty $if commands are open, the innermost branch enabled.
C26_Witness ==
    /\ pc = "commands"
    /\ parser.condLevel = 29
    /\ parser.condEnabled[29]
    /\ scenario.ast = NestedIfs(maxCondLevels, <<"a">>)

\* ------------------------------------------------------------------------
\* C27: text in branches that are not enabled
\* ------------------------------------------------------------------------

\* A placeholder that runs over an $if command: ${x <!-- $if !a -->}X<!-- $endIf -->E
TextStraddleIf ==
    <<"$", "{", "x", " ">> \o Cmd(ifCmd, <<"!", "a">>) \o <<"}", "X">> \o Cmd(endIfCmd, <<>>) \o <<"E">>

InputsHidden ==
    {InputOfAst(AstChain, cv, PlainValues) : cv \in BoolVars({<<"a">>, <<"b">>, <<"c">>})}
    \cup {InputOfAst(AstCondBlock, cv, PlainValues) : cv \in BoolVars({<<"a">>, <<"b">>})}
    \cup {InputOfAst(AstIfInIf(e1, e2), cv, PlainValues) :
              e1 \in NameExprs, e2 \in NameExprs, cv \in BoolVars({<<"a">>, <<"b">>})}
    \cup {[InputOfText(TextStraddleIf, FALSE, PlainValues) EXCEPT !.conditionVars = cv] :
              cv \in BoolVars({<<"a">>})}

InitHidden == \E input \in InputsHidden : InitOf(input)

SpecHidden == InitHidden /\ [][Next]_vars

\* The characters of all texts of the nodes.
RECURSIVE TextChars(_)
RECURSIVE BranchTextChars(_, _)
TextChars(nodes) ==
    IF nodes = <<>> THEN {}
    ELSE LET n == Head(nodes)
         IN  (CASE n.k = "text"  -> {n.s[i] : i \in 1 .. Len(n.s)}
                [] n.k = "block" -> TextChars(n.body)
                [] n.k = "cond"  -> BranchTextChars(n.branches, 1)
                [] OTHER         -> {})
             \cup TextChars(Tail(nodes))

BranchTextChars(branches, i) ==
    IF i > Len(branches) THEN {} ELSE TextChars(branches[i].body) \cup BranchTextChars(branches, i + 1)

\* The characters of the texts that have an enclosing branch which is not enabled:
\* all texts in the branches that are not kept, those of the conditionals nested in
\* them too.
RECURSIVE HiddenChars(_)
RECURSIVE BranchHiddenChars(_, _, _)
HiddenChars(nodes) ==
    IF nodes = <<>> THEN {}
    ELSE LET n == Head(nodes)
         IN  (CASE n.k = "block" -> HiddenChars(n.body)
                [] n.k = "cond"  -> BranchHiddenChars(n.branches, 1, TakenBranch(n))
                [] OTHER         -> {})
             \cup HiddenChars(Tail(nodes))

BranchHiddenChars(branches, i, taken) ==
    IF i > Len(branches) THEN {}
    ELSE (IF i = taken THEN HiddenChars(branches[i].body) ELSE TextChars(branches[i].body))
         \cup BranchHiddenChars(branches, i + 1, taken)

\* The hidden characters of the template of the scenario; the texts of the model's
\* templates have no character twice.
Hidden ==
    IF HasAst THEN HiddenChars(scenario.ast)
    ELSE IF CondHolds(<<"a">>) THEN {"X"}
    ELSE {}

\* Characters that every conditional command has, and no text and no value given.
CommandChars == {"<", "$", ">"}

\* C27 as stated: whatever calls of setVariable and addBlock are made, the output of
\* generateOutput has no character of a text that lies in a branch which is not
\* enabled, the branches nested in it with a true expression included, and no
\* character of the text of a conditional command.
C27_DisabledTextNeverEmitted ==
    Generated =>
        \A i \in 1 .. Len(join(ret.out)) : join(ret.out)[i] \notin Hidden \cup CommandChars

\* ------------------------------------------------------------------------
\* C28: comments that are no commands
\* ------------------------------------------------------------------------

\* A comment with the first token s: at the top of the template, in the branch of
\* $if a, which is kept, or in the branch of $if !a, which is not.
CommentNode(token, place) == [TextNode(token) EXCEPT !.k = "comment", !.name = place]

AtTop == <<"top">>
InKept == <<"kept">>
InDropped == <<"dropped">>

\* First tokens that begin with $ and are no commands, and first tokens of comments
\* that the parser has to leave alone: none, a word, words with a $ inside, a
\* placeholder.
UnknownTokens ==
    {<<"$", "f", "o", "o">>, <<"$">>, <<"$", "$">>, <<"$", "I", "f">>, ifCmd \o <<"x">>}

TextTokens ==
    {<<>>, <<"x">>, <<"x", "$", "i", "f">>, <<"-", "$", "i", "f">>, Placeholder(vX)}

KnownCommands == {beginBlockCmd, endBlockCmd, includeCmd, ifCmd, elseIfCmd, elseCmd, endIfCmd}

UnparseComment(n) ==
    <<"S">>
    \o (CASE n.name = AtTop  -> Cmd(n.s, <<>>)
           [] n.name = InKept -> Cmd(ifCmd, <<"a">>) \o Cmd(n.s, <<>>) \o Cmd(endIfCmd, <<>>)
           [] OTHER           -> Cmd(ifCmd, <<"!", "a">>) \o Cmd(n.s, <<>>) \o Cmd(endIfCmd, <<>>))
    \o <<"E">>

InputsComments ==
    {[ast |-> <<CommentNode(token, place)>>,
      files |-> (MainName :> UnparseComment(CommentNode(token, place))),
      conditionVars |-> (nA :> BoolVal(TRUE)),
      shortFormEnabled |-> short,
      values |-> {NullVal}] :
        token \in UnknownTokens \cup TextTokens, place \in {AtTop, InKept, InDropped}, short \in BOOLEAN}

InitComments == \E input \in InputsComments : InitOf(input)

SpecComments == InitComments /\ [][NextText]_vars

\* The first token of the comment begins with $, not with ${, and is none of the
\* seven commands.
IsUnknownCommand(token) ==
    /\ token # <<>> /\ token[1] = "$"
    /\ ~(Len(token) >= 2 /\ token[2] = "{")
    /\ token \notin KnownCommands

\* What is rendered of a comment that is text: the comment as it is written, the
\* placeholder in it replaced by the value of the variable, which is not set.
RenderedComment(n) ==
    IF n.name = InDropped THEN <<>>
    ELSE IF n.s = Placeholder(vX) THEN Cmd(<<>>, <<>>)
    ELSE Cmd(n.s, <<>>)

\* C28: a comment whose first token begins with $ (not with ${) and is none of
\* $beginBlock, $endBlock, $include, $if, $elseIf, $else, $endIf makes parseTemplate
\* fail with the unknown command TemplateSyntaxError; every other comment that is no
\* command (empty, first token not beginning with $, or beginning with ${) is
\* template text: the template is parsed and the comment is rendered like the text
\* around it.
C28_UnknownCommandFails ==
    IF IsUnknownCommand(scenario.ast[1].s)
    THEN /\ pc \notin {"parsed", "session"}
         /\ pc = "failed" =>
                (parser.errorClass = SyntaxError /\ parser.error = "Unknown command in template.")
    ELSE /\ pc # "failed"
         /\ Generated => join(ret.out) = <<"S">> \o RenderedComment(scenario.ast[1]) \o <<"E">>

\* Parsing has failed for the comment <!-- $foo --> in the branch that is not kept.
C28_Witness ==
    /\ pc = "failed"
    /\ scenario.ast = <<CommentNode(<<"$", "f", "o", "o">>, InDropped)>>
    /\ parser.error = "Unknown command in template."

\* ------------------------------------------------------------------------
\* C29: the ranges of the blocks
\* ------------------------------------------------------------------------

\* Block commands and conditional commands in any order.
MixedNodes ==
    {BeginNode(nR), EndNode(nR), IfNode(<<"a">>), IfNode(<<"!", "a">>), ElseNode, EndIfNode}

MaxMixed == 4

RECURSIVE MixedLists(_)
MixedLists(k) ==
    IF k = 0 THEN {<<>>}
    ELSE LET shorter == MixedLists(k - 1)
         IN  shorter \cup {Append(cmds, n) : cmds \in shorter, n \in MixedNodes}

\* The text of the commands: a text T behind every block command, the conditional
\* commands followed at once by the next command.
RECURSIVE UnparseMixed(_)
UnparseMixed(cmds) ==
    IF cmds = <<>> THEN <<>>
    ELSE LET n == Head(cmds)
             text == CASE n.k = "begin" -> Cmd(beginBlockCmd, n.name) \o <<"T">>
                       [] n.k = "end"   -> Cmd(endBlockCmd, n.name) \o <<"T">>
                       [] OTHER         -> CondCommandText(n, FALSE)
         IN  text \o UnparseMixed(Tail(cmds))

\* These templates, the templates with inclusions, and the templates with blocks in
\* blocks and blocks in branches.
InputsRanges ==
    {[ast |-> cmds,
      files |-> (MainName :> UnparseMixed(cmds)),
      conditionVars |-> (nA :> BoolVal(TRUE)),
      shortFormEnabled |-> FALSE,
      values |-> {NullVal}] : cmds \in MixedLists(MaxMixed)}
    \cup InputsInclude
    \cup {InputOfAst(AstNested3, NoVars, PlainValues), InputOfAst(AstRowCell, NoVars, PlainValues)}
    \cup {InputOfAst(AstCondBlock, cv, PlainValues) : cv \in BoolVars({<<"a">>, <<"b">>})}

InitRanges == \E input \in InputsRanges : InitOf(input)

SpecRanges == InitRanges /\ [][NextSyntax]_vars

\* The record of block blockNo in the ParsedTemplate.
BlockOf(blockNo) == template.blockTab[blockNo + 1]

SubBlockNos == 1 .. Len(template.blockTab) - 1

\* C29: in the ParsedTemplate that parseTemplate returns, for every block other than
\* the main block, dummy blocks included, tPosBegin <= tPosContentsBegin <=
\* tPosContentsEnd <= tPosEnd, the range of the block lies in the content range of
\* its parent block, its nesting level is that of its parent plus one, two blocks
\* with the same parent do not overlap, and blockTab is ordered by tPosBegin; also
\* when sub-templates were included.
C29_BlockRangesNest ==
    pc = "parsed" =>
        /\ \A b \in SubBlockNos :
              /\ BlockOf(b).tPosBegin <= BlockOf(b).tPosContentsBegin
              /\ BlockOf(b).tPosContentsBegin <= BlockOf(b).tPosContentsEnd
              /\ BlockOf(b).tPosContentsEnd <= BlockOf(b).tPosEnd
              /\ BlockOf(b).parentBlockNo \in 0 .. b - 1
              /\ BlockOf(BlockOf(b).parentBlockNo).tPosContentsBegin <= BlockOf(b).tPosBegin
              /\ BlockOf(b).tPosEnd <= BlockOf(BlockOf(b).parentBlockNo).tPosContentsEnd
              /\ BlockOf(b).nestingLevel = BlockOf(BlockOf(b).parentBlockNo).nestingLevel + 1
        /\ \A b, c \in SubBlockNos :
              b < c =>
                  /\ BlockOf(b).tPosBegin <= BlockOf(c).tPosBegin
                  /\ BlockOf(b).parentBlockNo = BlockOf(c).parentBlockNo =>
                         BlockOf(b).tPosEnd <= BlockOf(c).tPosBegin
        /\ BlockOf(0).tPosBegin = 0 /\ BlockOf(0).tPosEnd = Len(template.templateText)

\* A template with inclusions is parsed: block r with the dummy block of the $else
\* branch behind it and the dummy block of the $if command before it.
C29_Witness ==
    /\ pc = "parsed"
    /\ SubName \in DOMAIN pParms.files
    /\ \E b, c, d \in SubBlockNos :
          /\ b < c /\ c < d
          /\ BlockOf(b).dummy /\ ~BlockOf(c).dummy /\ BlockOf(d).dummy
          /\ BlockOf(c).blockName = nR
          /\ BlockOf(b).tPosEnd = BlockOf(c).tPosBegin
          /\ BlockOf(c).tPosEnd = BlockOf(d).tPosBegin
          /\ BlockOf(d).tPosEnd > BlockOf(d).tPosBegin

\* ------------------------------------------------------------------------
\* C30: the variable references of the blocks
\* ------------------------------------------------------------------------

vY == <<"y">>

\* Block commands, the commands of a disabled branch, and placeholders.
PlacedNodes ==
    {BeginNode(nR), EndNode(nR), IfNode(<<"!", "a">>), EndIfNode, VarNode(vX), VarNode(vY)}

MaxPlaced == 4

RECURSIVE PlacedLists(_)
PlacedLists(k) ==
    IF k = 0 THEN {<<>>}
    ELSE LET shorter == PlacedLists(k - 1)
         IN  shorter \cup {Append(cmds, n) : cmds \in shorter, n \in PlacedNodes}

RECURSIVE UnparsePlaced(_)
UnparsePlaced(cmds) ==
    IF cmds = <<>> THEN <<>>
    ELSE LET n == Head(cmds)
             text == CASE n.k = "begin" -> Cmd(beginBlockCmd, n.name)
                       [] n.k = "end"   -> Cmd(endBlockCmd, n.name)
                       [] n.k = "var"   -> Placeholder(n.name)
                       [] OTHER         -> CondCommandText(n, FALSE)
         IN  text \o UnparsePlaced(Tail(cmds))

\* These templates, the templates with inclusions, the templates with a placeholder
\* that runs over a command, and a block in a block.
InputsRefs ==
    {[ast |-> cmds,
      files |-> (MainName :> UnparsePlaced(cmds)),
      conditionVars |-> (nA :> BoolVal(TRUE)),
      shortFormEnabled |-> FALSE,
      values |-> {NullVal}] : cmds \in PlacedLists(MaxPlaced)}
    \cup InputsInclude
    \cup {[InputOfText(text, FALSE, {NullVal}) EXCEPT !.conditionVars = (nA :> BoolVal(TRUE))] :
             text \in {TextStraddle, TextStraddleSub, TextStraddleIf}}
    \cup {InputOfAst(AstRowCell, NoVars, PlainValues)}

InitRefs == \E input \in InputsRefs : InitOf(input)

SpecRefs == InitRefs /\ [][NextSyntax]_vars

VarRefNos == 0 .. Len(template.varRefTab) - 1

VarRefOf(varRefNo) == template.varRefTab[varRefNo + 1]

\* The blocks whose range [tPosBegin, tPosEnd) contains the position.
BlocksAt(tPos) ==
    {b \in 0 .. Len(template.blockTab) - 1 : BlockOf(b).tPosBegin <= tPos /\ tPos < BlockOf(b).tPosEnd}

\* The numbers of the references assigned to the block.
VarRefsOf(blockNo) == {r \in VarRefNos : VarRefOf(r).blockNo = blockNo}

\* C30: in the ParsedTemplate, every variable reference is assigned to the innermost
\* block whose range [tPosBegin, tPosEnd) contains its tPosBegin, blockVarNoToVarNoMap
\* of that block has the varNo of the reference at its blockVarNo, and firstVarRefNo
\* of a block is the lowest number of the references assigned to it, -1 with none.
C30_ReferencesInInnermostBlock ==
    pc = "parsed" =>
        /\ \A r \in VarRefNos :
              /\ VarRefOf(r).blockNo \in BlocksAt(VarRefOf(r).tPosBegin)
              /\ \A b \in BlocksAt(VarRefOf(r).tPosBegin) :
                    /\ BlockOf(b).tPosBegin <= BlockOf(VarRefOf(r).blockNo).tPosBegin
                    /\ BlockOf(VarRefOf(r).blockNo).tPosEnd <= BlockOf(b).tPosEnd
              /\ VarRefOf(r).blockVarNo \in 0 .. Len(BlockOf(VarRefOf(r).blockNo).blockVarNoToVarNoMap) - 1
              /\ BlockOf(VarRefOf(r).blockNo).blockVarNoToVarNoMap[VarRefOf(r).blockVarNo + 1]
                    = VarRefOf(r).varNo
        /\ \A b \in 0 .. Len(template.blockTab) - 1 :
              BlockOf(b).firstVarRefNo = IF VarRefsOf(b) = {} THEN -1 ELSE Min(VarRefsOf(b))

\* A reference in the main block behind a block with a reference to another variable:
\* the first reference of the main block is not reference 0.
C30_Witness ==
    /\ pc = "parsed"
    /\ \E r \in VarRefNos :
          /\ r > 0
          /\ VarRefOf(r).blockNo = 0
          /\ VarRefOf(r).blockVarNo = 0
          /\ BlockOf(0).firstVarRefNo = r
          /\ VarRefOf(r - 1).blockNo > 0
          /\ ~BlockOf(VarRefOf(r - 1).blockNo).dummy
          /\ VarRefOf(r).varNo # VarRefOf(r - 1).varNo

\* ------------------------------------------------------------------------
\* C31: the parent level of an instance
\* ------------------------------------------------------------------------

BlockInstNos == 0 .. Len(blockInstTab) - 1

BlockInst(blockInstNo) == blockInstTab[blockInstNo + 1]

\* The instances of the parent block of the instance's block whose instanceLevel is
\* the parentInstLevel of the instance.
ParentInstances(blockInstNo) ==
    {p \in BlockInstNos :
        /\ BlockInst(p).blockNo = BlockOf(BlockInst(blockInstNo).blockNo).parentBlockNo
        /\ BlockInst(p).instanceLevel = BlockInst(blockInstNo).parentInstLevel}

SubBlockInstNos == {n \in BlockInstNos : BlockInst(n).blockNo # 0}

\* C31 as stated: when generateOutput has run, the parentInstLevel of every instance
\* of a block other than the main block is the instanceLevel of exactly one instance
\* of the parent block, whatever addBlock calls were made.
C31_EveryInstanceHasParent ==
    Generated => \A n \in SubBlockInstNos : Cardinality(ParentInstances(n)) = 1

\* C31 amended: when generateOutput has run, the parentInstLevel of an instance of a
\* block other than the main block is the number of instances the parent block had
\* when the instance was created; at most one instance of the parent block has it as
\* its instanceLevel, that instance was created after the instance, and it exists
\* exactly when the parent block was added again afterwards.
C31_ParentAddedLater ==
    Generated =>
        \A n \in SubBlockInstNos :
            /\ Cardinality(ParentInstances(n)) <= 1
            /\ \A p \in ParentInstances(n) : p > n
            /\ BlockInst(n).parentInstLevel
                  = Cardinality({p \in BlockInstNos :
                                   /\ p < n
                                   /\ BlockInst(p).blockNo = BlockOf(BlockInst(n).blockNo).parentBlockNo})
            /\ (ParentInstances(n) # {}) <=>
                  BlockInst(n).parentInstLevel
                     < At(blockDynTab, BlockOf(BlockInst(n).blockNo).parentBlockNo).instances

\* A run in which a cell has its row and a cell added after the last row has none.
C31_Witness ==
    /\ Generated /\ scenario.ast = AstRowCell
    /\ \E n, k \in SubBlockInstNos :
          /\ n < k
          /\ BlockOf(BlockInst(n).blockNo).blockName = nC
          /\ BlockOf(BlockInst(k).blockNo).blockName = nC
          /\ ParentInstances(n) # {}
          /\ ParentInstances(k) = {}

\* ------------------------------------------------------------------------
\* C32: the chain of the instances of a block
\* ------------------------------------------------------------------------

\* The instances reached from blockInstNo by nextBlockInstNo, at most k of them.
RECURSIVE ChainFrom(_, _)
ChainFrom(blockInstNo, k) ==
    IF blockInstNo = -1 \/ k = 0 THEN <<>>
    ELSE <<blockInstNo>> \o ChainFrom(BlockInst(blockInstNo).nextBlockInstNo, k - 1)

\* The chain of block blockNo, from firstBlockInstNo.
ChainOf(blockNo) == ChainFrom(At(blockDynTab, blockNo).firstBlockInstNo, Len(blockInstTab) + 1)

InstancesOf(blockNo) == {n \in BlockInstNos : BlockInst(n).blockNo = blockNo}

\* C32: after any sequence of calls, for every block: following nextBlockInstNo from
\* firstBlockInstNo visits exactly the instances of the block in the order of their
\* creation and ends at lastBlockInstNo; their instanceLevel values are 0, 1, .., n - 1
\* with n the block's instances count; their parentInstLevel values do not decrease
\* along the chain; and firstBlockInstNo and lastBlockInstNo are -1 exactly when n = 0.
C32_ChainInCreationOrder ==
    pc = "session" =>
        \A d \in 0 .. Len(template.blockTab) - 1 :
            /\ {ChainOf(d)[i] : i \in 1 .. Len(ChainOf(d))} = InstancesOf(d)
            /\ Len(ChainOf(d)) = At(blockDynTab, d).instances
            /\ \A i \in 1 .. Len(ChainOf(d)) :
                  /\ BlockInst(ChainOf(d)[i]).instanceLevel = i - 1
                  /\ i > 1 => /\ ChainOf(d)[i - 1] < ChainOf(d)[i]
                              /\ BlockInst(ChainOf(d)[i - 1]).parentInstLevel
                                    <= BlockInst(ChainOf(d)[i]).parentInstLevel
            /\ ChainOf(d) # <<>> =>
                  /\ At(blockDynTab, d).lastBlockInstNo = ChainOf(d)[Len(ChainOf(d))]
                  /\ BlockInst(At(blockDynTab, d).lastBlockInstNo).nextBlockInstNo = -1
            /\ At(blockDynTab, d).firstBlockInstNo = -1 <=> At(blockDynTab, d).instances = 0
            /\ At(blockDynTab, d).lastBlockInstNo = -1 <=> At(blockDynTab, d).instances = 0

\* Three cells, a row added between them: the chain of the cell block passes over the
\* instance of the row block, and the parent level rises along it.
C32_Witness ==
    /\ pc = "session" /\ scenario.ast = AstRowCell
    /\ \E d \in 1 .. Len(template.blockTab) - 1 :
          /\ BlockOf(d).blockName = nC
          /\ Len(ChainOf(d)) = 3
          /\ ChainOf(d)[3] > ChainOf(d)[2] + 1
          /\ BlockInst(ChainOf(d)[2]).parentInstLevel < BlockInst(ChainOf(d)[3]).parentInstLevel

\* ------------------------------------------------------------------------
\* C33: calls after generateOutput
\* ------------------------------------------------------------------------

\* The object after the step.
MeNext == [varValuesTab |-> varValuesTab', blockDynTab |-> blockDynTab', blockInstTab |-> blockInstTab']

\* What generateOutput would return or throw next.
OutputOf(m) == {<<st.failed, st.out>> : st \in {generateOutputArray(m, template)}}

\* generateOutput would return the same from both objects.
SameOutput(m1, m2) == m1 = m2 \/ OutputOf(m1) = OutputOf(m2)

\* The instance of the main block.
MainInstNo == At(blockDynTab, 0).firstBlockInstNo

\* generateOutput has run since construction or the last reset, and the step is no reset.
AfterGenerate ==
    /\ pc = "session"
    /\ At(blockDynTab, 0).instances = 1
    /\ blockDynTab'[1].instances = 1

\* C33: once generateOutput has run, the calls of setVariable and addBlock made before
\* the next reset do not change what later calls of generateOutput return: the
\* instance of the main block keeps its copy of the values, and an instance added
\* afterwards is not rendered and no instance of its parent block with the recorded
\* parent level is rendered.
C33_OutputKeptAfterGenerate ==
    /\ [](Generated =>
            \A n \in BlockInstNos :
                n > MainInstNo =>
                    /\ Count(ret.written, n) = 0
                    /\ \A p \in ParentInstances(n) : Count(ret.written, p) = 0)
    /\ [][AfterGenerate =>
            /\ blockInstTab'[MainInstNo + 1] = blockInstTab[MainInstNo + 1]
            /\ SameOutput(Me, MeNext)]_vars

\* generateOutput has returned again after x was set to "V" and a block c and then its
\* parent block r were added behind the instance of the main block.
C33_Witness ==
    /\ Generated
    /\ vX \in DOMAIN given /\ given[vX] = <<"V">>
    /\ \E n, p \in BlockInstNos :
          /\ MainInstNo < n /\ n < p
          /\ BlockOf(BlockInst(n).blockNo).blockName = nC
          /\ p \in ParentInstances(n)
    /\ \A q \in 1 .. Len(ret.out) : ret.out[q] # <<"V">>

\* ------------------------------------------------------------------------
\* C34: the variables of the main block are copied by the first generateOutput
\* ------------------------------------------------------------------------

\* The text that stands for x in the output of the call of generateOutput that is made
\* now: the value last given when this is the first call since construction or reset,
\* else the value that was the last given at that first call.
RootValueNow == IF MainAdded THEN calls[MainCall].vals[vX] ELSE given[vX]

\* The calls of addBlock made before the first call of generateOutput.
CallsBeforeMain == IF MainAdded THEN MainCall ELSE Len(calls) + 1

\* C34: the variables referenced in the main block are rendered with the values that
\* are current at the first call of generateOutput after construction or reset,
\* whether they were set before or after the addBlock calls of other blocks; the value
\* set last before that call wins, and values set after it do not show.
C34_RootValuesAtFirstGenerate ==
    [][(scenario.ast = AstRootVar /\ ret'.kind \in {"out", "error"} /\ GenerateOutput) =>
          /\ ret'.kind = "out"
          /\ join(ret'.out) = <<"A">> \o RootValueNow \o Rs(1, CallsBeforeMain)
                                \o RootValueNow \o <<"B">>
          /\ \A i \in 1 .. Len(blockInstTab') :
                blockInstTab'[i].blockNo = 0 =>
                    blockInstTab'[i].blockVarTab = <<RootValueNow, RootValueNow>>
      ]_vars

\* generateOutput has returned again: block r was added before the first call, x was
\* 7 at the first call and was set to "V" afterwards, and the output shows 7.
C34_Witness ==
    /\ Generated /\ scenario.ast = AstRootVar
    /\ MainCall > 1
    /\ calls[MainCall].vals[vX] = <<"7">>
    /\ given[vX] = <<"V">>
    /\ join(ret.out) = <<"A", "7", "R", "7", "B">>

\* ------------------------------------------------------------------------
\* C35: nothing is loaded and nothing is evaluated where the text is not kept
\* ------------------------------------------------------------------------

IncludeNode(name) == [TextNode(<<>>) EXCEPT !.k = "include", !.name = name]

\* u is no condition variable and no file: $if u and $elseIf u cannot be evaluated and
\* $include u cannot be loaded.
GuardedNodes ==
    {IfNode(<<"a">>), IfNode(<<"!", "a">>), IfNode(nU), ElseIfNode(nU), ElseNode, EndIfNode,
     IncludeNode(nU)}

MaxGuarded == 4

RECURSIVE GuardedLists(_)
GuardedLists(k) ==
    IF k = 0 THEN {<<>>}
    ELSE LET shorter == GuardedLists(k - 1)
         IN  shorter \cup {Append(cmds, n) : cmds \in shorter, n \in GuardedNodes}

RECURSIVE UnparseGuarded(_)
UnparseGuarded(cmds) ==
    IF cmds = <<>> THEN <<>>
    ELSE (IF Head(cmds).k = "include" THEN Cmd(includeCmd, Head(cmds).name)
          ELSE CondCommandText(Head(cmds), FALSE))
         \o UnparseGuarded(Tail(cmds))

InputsGuarded ==
    {[ast |-> cmds,
      files |-> (MainName :> UnparseGuarded(cmds)),
      conditionVars |-> (nA :> BoolVal(TRUE)),
      shortFormEnabled |-> FALSE,
      values |-> {NullVal}] : cmds \in GuardedLists(MaxGuarded)}

InitGuarded == \E input \in InputsGuarded : InitOf(input)

SpecGuarded == InitGuarded /\ [][NextSyntax]_vars

\* The command cannot be carried out: its expression cannot be evaluated, its file
\* cannot be loaded.
Risky(n) == (n.k \in {"if", "elseIf"} /\ n.s = nU) \/ n.k = "include"

\* Whether the command, read at these levels, is where the text is kept: an $if and an
\* $include in enabled context, an $elseIf when the context of its $if is enabled and
\* no branch of the chain was taken.
InLivePlace(n, levels) ==
    IF n.k = "elseIf" THEN levels[2].enabled /\ ~levels[1].passed ELSE levels[1].enabled

\* Whether one of the commands from the i-th on is risky and in a live place.
RECURSIVE HasLiveRisk(_, _, _)
HasLiveRisk(cmds, i, levels) ==
    IF i > Len(cmds) THEN FALSE
    ELSE IF Risky(cmds[i]) /\ InLivePlace(cmds[i], levels) THEN TRUE
    ELSE HasLiveRisk(cmds, i + 1,
                     IF cmds[i].k = "include" THEN levels ELSE LevelsAfter(cmds[i], levels))

\* The conditional commands of the list.
CondCommandsOf(cmds) == SelectSeq(cmds, LAMBDA n : n.k # "include")

\* C35: in a disabled context the parser neither loads nor evaluates: an $include
\* there does not call the loader, an $if or $elseIf nested there is not evaluated,
\* and an $elseIf behind a branch already taken is not evaluated, so that an
\* expression that cannot be evaluated and a sub-template that cannot be loaded do
\* not make parsing fail in such a place (in a place where the text is kept they do).
C35_NothingDoneWhereDisabled ==
    ~HasCondFault(CondCommandsOf(scenario.ast), 1, 0) =>
        IF HasLiveRisk(scenario.ast, 1, <<OutsideLevel>>)
        THEN /\ pc # "parsed"
             /\ pc = "failed" => parser.errorClass \in {SyntaxError, "LoaderError"}
        ELSE pc # "failed"

\* $if a / $elseIf u / $include u / $endIf is parsed.
C35_Witness ==
    /\ pc = "parsed"
    /\ scenario.ast = <<IfNode(<<"a">>), ElseIfNode(nU), IncludeNode(nU), EndIfNode>>

\* ------------------------------------------------------------------------
\* C36: a variable referenced in disabled branches only
\* ------------------------------------------------------------------------

\* y is referenced in the main block, x in one branch of a chain with an $else branch.
AstBranchVar(expr) ==
    << TextNode(<<"S">>), VarNode(vY),
       CondNode(<< Branch(expr, << TextNode(<<"(">>), VarNode(vX), TextNode(<<")">>) >>),
                   Branch(<<>>, << TextNode(<<"D">>) >>) >>, TRUE),
       TextNode(<<"E">>) >>

\* The same, the chain inside the branch of an $if !a.
AstDeepBranchVar(expr) ==
    << TextNode(<<"S">>), VarNode(vY),
       CondNode(<< Branch(<<"!", "a">>, << CondNode(<< Branch(expr, << VarNode(vX) >>) >>, FALSE) >>),
                   Branch(<<>>, << TextNode(<<"D">>) >>) >>, TRUE),
       TextNode(<<"E">>) >>

\* Placeholders that cannot be parsed: empty, blank, without end.
BadPlaceholders == {<<"$", "{", "}">>, <<"$", "{", " ", "}">>, <<"$", "{", "x">>}

\* A placeholder in the branch of $if !a.
TextInDisabled(placeholder) ==
    <<"S">> \o Cmd(ifCmd, <<"!", "a">>) \o <<"(">> \o placeholder \o <<")">> \o Cmd(endIfCmd, <<>>) \o <<"E">>

InputsRegistered ==
    {InputOfAst(tree, (nA :> BoolVal(v)), PlainValues) :
        tree \in {AstBranchVar(<<"a">>), AstBranchVar(<<"!", "a">>),
                  AstDeepBranchVar(<<"a">>), AstDeepBranchVar(<<"!", "a">>)},
        v \in BOOLEAN}
    \cup {[InputOfText(TextInDisabled(placeholder), FALSE, PlainValues) EXCEPT
               !.conditionVars = (nA :> BoolVal(TRUE))] : placeholder \in BadPlaceholders}

InitRegistered == \E input \in InputsRegistered : InitOf(input)

NextRegistered ==
    \/ Next
    \/ \E varName \in {vX, nU} : VariableExists(varName)

SpecRegistered == InitRegistered /\ [][NextRegistered]_vars

\* The reference to x of the syntax tree is in a branch that is not kept.
ReferenceDisabled ==
    \/ /\ scenario.ast \in {AstBranchVar(<<"a">>), AstDeepBranchVar(<<"a">>)}
       /\ ~ConditionVar(nA)
    \/ /\ scenario.ast \in {AstBranchVar(<<"!", "a">>), AstDeepBranchVar(<<"!", "a">>)}
       /\ ConditionVar(nA)
    \/ /\ scenario.ast = AstDeepBranchVar(<<"a">>)
       /\ ConditionVar(nA)

\* The text of the branches that are kept.
KeptText ==
    IF scenario.ast \in {AstBranchVar(<<"a">>), AstBranchVar(<<"!", "a">>)} \/ ConditionVar(nA)
    THEN <<"D">> ELSE <<>>

\* C36: a variable whose references are all in disabled branches is in the variable
\* table all the same: variableExists returns true for it and setVariable does not
\* throw, and the value given does not come into the output; and an empty or
\* unterminated placeholder in a disabled branch makes parsing fail.
C36_DisabledReferenceRegistered ==
    /\ (HasAst /\ ReferenceDisabled) =>
          /\ pc # "failed"
          /\ pc \in {"parsed", "session"} =>
                /\ variableExists(template, vX)
                /\ \E i \in 1 .. Len(template.varTab) : template.varTab[i] = vX
          /\ pc = "session" =>
                \A v \in scenario.values : setVariable(Me, template, vX, v).err = ""
          /\ Generated =>
                join(ret.out) = <<"S">> \o calls[MainCall].vals[vY] \o KeptText \o <<"E">>
    /\ ~HasAst =>
          /\ pc \notin {"parsed", "session"}
          /\ pc = "failed" => parser.errorClass = SyntaxError

\* x was "V" and y empty when the output was generated, and the output is SDE.
C36_Witness ==
    /\ Generated /\ scenario.ast = AstBranchVar(<<"!", "a">>)
    /\ ConditionVar(nA)
    /\ calls[MainCall].vals[vX] = <<"V">>
    /\ calls[MainCall].vals[vY] = <<>>
    /\ join(ret.out) = <<"S", "D", "E">>

\* ------------------------------------------------------------------------
\* C37: the block numbers in openBlocksTab
\* ------------------------------------------------------------------------

\* The template (<r>T</r>T)^n: n blocks r, one behind the other, in the main block.
SiblingText == Cmd(beginBlockCmd, nR) \o <<"T">> \o Cmd(endBlockCmd, nR) \o <<"T">>

SiblingSpan == Len(SiblingText)

\* The file of a template of many such blocks: its text is not written out.
PackedSiblingsText == <<"(<r>T</r>T) * n">>

\* The record of the main block while the commands are parsed.
OpenMainBlock == At(beginMainBlock(NoParser).blockTab, 0)

\* The record of the i-th of these blocks when its $endBlock command is processed.
SiblingBlock(i) ==
    [blockName |-> nR,
     nextWithSameName |-> IF i = 1 THEN -1 ELSE i - 1,
     tPosBegin |-> (i - 1) * SiblingSpan,
     tPosContentsBegin |-> (i - 1) * SiblingSpan + Len(Cmd(beginBlockCmd, nR)),
     tPosContentsEnd |-> (i - 1) * SiblingSpan + Len(Cmd(beginBlockCmd, nR)) + 1,
     tPosEnd |-> i * SiblingSpan - 1,
     nestingLevel |-> 1,
     parentBlockNo |-> 0,
     definitionIsOpen |-> FALSE,
     blockVarNoToVarNoMap |-> <<>>,
     firstVarRefNo |-> -1,
     dummy |-> FALSE]

\* The fields of the parser when the commands of n of these blocks are processed,
\* n > 0: cell 1 of openBlocksTab holds what was stored for block n.
ParserAfterSiblings(n, text) ==
    [beginMainBlock(initParsing(text, (nA :> BoolVal(TRUE)))) EXCEPT
        !.blockTab = <<OpenMainBlock>> \o [i \in 1 .. n |-> SiblingBlock(i)],
        !.blockNameToNoMap = (nR :> n),
        !.openBlocksTab[1] = ToInt16(n),
        !.p = n * SiblingSpan - 1]

\* The parser as it has parsed the blocks of a template of the model is what
\* ParserAfterSiblings says.
SiblingsAsParsed ==
    \A n \in 1 .. 2 :
        (/\ pc = "commands"
         /\ parser.templateText = Repeat(SiblingText, n)
         /\ parser.p = n * SiblingSpan - 1) => parser = ParserAfterSiblings(n, Repeat(SiblingText, n))

\* What the parser has for the numbering of the blocks: the length of blockTab, the
\* nesting level and the cells of openBlocksTab. The records of the blocks are not
\* carried along: the numbering does not read them.
NumberingOf(ps) ==
    [blockCount |-> Len(ps.blockTab),
     currentNestingLevel |-> ps.currentNestingLevel,
     openBlocksTab |-> ps.openBlocksTab]

\* registerBlock on the numbering: the number of the new block is the length of
\* blockTab, its parentBlockNo is read from the cell of the level above.
registerBlockNumbered(ns) ==
    [blockNo |-> ns.blockCount,
     nestingLevel |-> ns.currentNestingLevel,
     parentBlockNo |-> IF ns.currentNestingLevel > 0
                       THEN ns.openBlocksTab[ns.currentNestingLevel - 1]
                       ELSE -1]

\* processBeginBlockCmd on the numbering, for a command with a block name in enabled
\* context: failed when the nesting level goes beyond maxNestingLevel.
processBeginBlockCmdNumbered(ns) ==
    [ns |-> [blockCount |-> ns.blockCount + 1,
             currentNestingLevel |-> ns.currentNestingLevel + 1,
             openBlocksTab |-> [ns.openBlocksTab EXCEPT
                                   ![ns.currentNestingLevel] = ToInt16(registerBlockNumbered(ns).blockNo)]],
     btr |-> registerBlockNumbered(ns),
     failed |-> ns.currentNestingLevel + 1 > maxNestingLevel]

\* processEndBlockCmd on the numbering, for the $endBlock of the innermost open block.
processEndBlockCmdNumbered(ns) == [ns EXCEPT !.currentNestingLevel = @ - 1]

\* The block that a step of the parser has registered.
NewBlock == parser'.blockTab[Len(parser'.blockTab)]

\* The steps of the parser that begin and end a block do to the numbering what
\* processBeginBlockCmdNumbered and processEndBlockCmdNumbered say.
NumberingAsParsed ==
    [][(pc = "commands" /\ pc' = "commands") =>
          /\ (Len(parser'.blockTab) = Len(parser.blockTab) + 1 /\ ~NewBlock.dummy) =>
                /\ NumberingOf(parser') = processBeginBlockCmdNumbered(NumberingOf(parser)).ns
                /\ NewBlock.parentBlockNo = registerBlockNumbered(NumberingOf(parser)).parentBlockNo
                /\ NewBlock.nestingLevel = registerBlockNumbered(NumberingOf(parser)).nestingLevel
          /\ parser'.currentNestingLevel = parser.currentNestingLevel - 1 =>
                NumberingOf(parser') = processEndBlockCmdNumbered(NumberingOf(parser))
      ]_vars

\* One less than the greatest number that an Int16Array cell holds.
GreatCount == 65536 \div 2 - 2

\* The blocks already parsed when a behaviour begins.
SiblingCounts == {1, 2, GreatCount - 1, GreatCount}

\* The blocks that a behaviour begins after these.
MaxBegun == 4

\* parseTemplateCommands has processed the commands of n blocks, one behind the other.
\* open and registered are history: the numbers of the open blocks, the innermost
\* last, and for the blocks begun since what registerBlock gave them, with the
\* number of the block that was the innermost open block.
InitSiblings ==
    \E n \in SiblingCounts :
        /\ pParms = [files |-> (MainName :> PackedSiblingsText),
                     mainTemplateName |-> MainName,
                     conditionVars |-> (nA :> BoolVal(TRUE)),
                     shortFormEnabled |-> FALSE]
        /\ scenario = [ast |-> <<>>, values |-> {NullVal}]
        /\ pc = "commands"
        /\ parser = [ns |-> NumberingOf(ParserAfterSiblings(n, PackedSiblingsText)),
                     open |-> <<0>>,
                     registered |-> <<>>]
        /\ template = NoTemplate
        /\ varValuesTab = <<>>
        /\ blockDynTab = <<>>
        /\ blockInstTab = <<>>
        /\ ret = NoRet
        /\ given = NotGiven(<<>>)
        /\ calls = <<>>
        /\ turn = FALSE
        /\ cache = NoCache
        /\ sessions = NoSessions

\* The loop of parseTemplateCommands finds a $beginBlock command with a block name.
BeginBlockCommand ==
    /\ pc = "commands"
    /\ Len(parser.registered) < MaxBegun
    /\ parser' = [ns |-> processBeginBlockCmdNumbered(parser.ns).ns,
                  open |-> Append(parser.open, parser.ns.blockCount),
                  registered |-> Append(parser.registered,
                                        [btr |-> processBeginBlockCmdNumbered(parser.ns).btr,
                                         innermost |-> parser.open[Len(parser.open)]])]
    /\ pc' = IF processBeginBlockCmdNumbered(parser.ns).failed THEN "failed" ELSE "commands"
    /\ turn' = ~turn
    /\ UNCHANGED <<pParms, template, varValuesTab, blockDynTab, blockInstTab, ret, given, calls, scenario, cache, sessions>>

\* The loop finds the $endBlock command of the innermost open block.
EndBlockCommand ==
    /\ pc = "commands"
    /\ Len(parser.open) > 1
    /\ parser' = [parser EXCEPT !.ns = processEndBlockCmdNumbered(parser.ns),
                                !.open = SubSeq(@, 1, Len(@) - 1)]
    /\ turn' = ~turn
    /\ UNCHANGED <<pParms, pc, template, varValuesTab, blockDynTab, blockInstTab, ret, given, calls, scenario, cache, sessions>>

NextSiblings ==
    \/ BeginBlockCommand
    \/ EndBlockCommand

SpecSiblings == InitSiblings /\ [][NextSiblings]_vars

\* C37: however many blocks the template has, parentBlockNo of every block registered
\* is the number of the innermost block open where the block begins, an index into
\* blockTab, and the numbers of the open blocks read from the 16-bit cells of
\* openBlocksTab are the numbers that were stored.
C37_ParentIsInnermostOpen ==
    pc = "commands" =>
        /\ \A l \in 0 .. parser.ns.currentNestingLevel - 1 :
              parser.ns.openBlocksTab[l] = parser.open[l + 1]
        /\ \A i \in 1 .. Len(parser.registered) :
              /\ parser.registered[i].btr.parentBlockNo \in 0 .. parser.registered[i].btr.blockNo - 1
              /\ parser.registered[i].btr.parentBlockNo = parser.registered[i].innermost

=============================================================================
